---- MODULE Spec2Model ----
(***************************************************************************)
(* WanderWise server: the itinerary synthesis pipeline.                    *)
(*                                                                         *)
(* Two generations of the pipeline live in the repository:                 *)
(*   - generateAIItineraryService -> generateTravelItinerary ->            *)
(*     parseAIResponse (line-oriented parser, activity classifier), which  *)
(*     persists the assembled itinerary;                                   *)
(*   - the generateItinerary controller -> WeatherService ->               *)
(*     AIService.generateItinerary -> parseItinerary /                     *)
(*     createFallbackItinerary, which only answers the request;            *)
(* plus AIService.regenerateDay and createItineraryService.                *)
(* The operations on a stored itinerary (itinerary.service.ts) and the     *)
(* CRUD controllers of the router act on the collections store and saved.  *)
(*                                                                         *)
(* Text is modelled as a sequence of one-character strings, so that        *)
(* includes, trim, toLowerCase, split and the regular expressions are      *)
(* computed on characters as the code computes them.                       *)
(***************************************************************************)
EXTENDS Integers, Sequences, FiniteSets, TLC

VARIABLES
  apiKey,    \* OPENROUTER_API_KEY is configured (read once at module load)
  pc,        \* position of the request being served
  req,       \* the request being served
  loc,       \* locals of the handler that survive an await
  calls,     \* external providers called for this request, in order
  store,     \* the Itinerary collection (documents in insertion order)
  result,    \* what the caller of the entry point receives
  cText,     \* classifier harness: the input line
  cOut,      \* classifier harness: the classification of cText
  pDays,     \* parser harness: numberOfDays
  pFed,      \* parser harness: the lines of the text read so far
  pState,    \* parser harness: the variables of the loop of parseAIResponse
  pOut,      \* parser harness: what parseAIResponse returned
  parked,    \* the request suspended at an await while another one runs
  saved      \* the collection of the saveItinerary controller's model

vars == <<apiKey, pc, req, loc, calls, store, result, cText, cOut,
          pDays, pFed, pState, pOut, parked, saved>>

(***************************************************************************)
(* Characters and strings                                                  *)
(***************************************************************************)
UpperCase == <<"A","B","C","D","E","F","G","H","I","J","K","L","M",
               "N","O","P","Q","R","S","T","U","V","W","X","Y","Z">>
LowerCase == <<"a","b","c","d","e","f","g","h","i","j","k","l","m",
               "n","o","p","q","r","s","t","u","v","w","x","y","z">>
Digits == <<"0","1","2","3","4","5","6","7","8","9">>

\* U+2022, the bullet character of startsWith and of the bullet regex
Bullet == "bullet"

IsDigit(c) == \E i \in 1..10 : Digits[i] = c
DigitVal(c) == (CHOOSE i \in 1..10 : Digits[i] = c) - 1
IsSpace(c) == c = " "

LowerChar(c) ==
  IF \E i \in 1..26 : UpperCase[i] = c
    THEN LowerCase[CHOOSE i \in 1..26 : UpperCase[i] = c]
    ELSE c

toLowerCase(s) == [i \in 1..Len(s) |-> LowerChar(s[i])]

includes(s, sub) ==
  \E i \in 1..(Len(s) - Len(sub) + 1) : SubSeq(s, i, i + Len(sub) - 1) = sub

SetMin(S) == CHOOSE x \in S : \A y \in S : x <= y
SetMax(S) == CHOOSE x \in S : \A y \in S : x >= y

trim(s) ==
  LET keep == {i \in 1..Len(s) : ~IsSpace(s[i])}
  IN  IF keep = {} THEN <<>> ELSE SubSeq(s, SetMin(keep), SetMax(keep))

(***************************************************************************)
(* Keywords of the classifier and of the parser                            *)
(***************************************************************************)
kw_restaurant == <<"r", "e", "s", "t", "a", "u", "r", "a", "n", "t">>
kw_dinner == <<"d", "i", "n", "n", "e", "r">>
kw_lunch == <<"l", "u", "n", "c", "h">>
kw_breakfast == <<"b", "r", "e", "a", "k", "f", "a", "s", "t">>
kw_cafe == <<"c", "a", "f", "e">>
kw_hotel == <<"h", "o", "t", "e", "l">>
kw_accommodation == <<"a", "c", "c", "o", "m", "m", "o", "d", "a", "t", "i", "o", "n">>
kw_stay == <<"s", "t", "a", "y">>
kw_tour == <<"t", "o", "u", "r">>
kw_hike == <<"h", "i", "k", "e">>
kw_adventure == <<"a", "d", "v", "e", "n", "t", "u", "r", "e">>
kw_activity == <<"a", "c", "t", "i", "v", "i", "t", "y">>
kw_shop == <<"s", "h", "o", "p">>
kw_market == <<"m", "a", "r", "k", "e", "t">>
kw_store == <<"s", "t", "o", "r", "e">>
kw_transport == <<"t", "r", "a", "n", "s", "p", "o", "r", "t">>
kw_taxi == <<"t", "a", "x", "i">>
kw_train == <<"t", "r", "a", "i", "n">>
kw_bus == <<"b", "u", "s">>
kw_luxury == <<"l", "u", "x", "u", "r", "y">>
kw_fine_dining == <<"f", "i", "n", "e", " ", "d", "i", "n", "i", "n", "g">>
kw_museum == <<"m", "u", "s", "e", "u", "m">>
kw_walk == <<"w", "a", "l", "k">>
kw_day == <<"d", "a", "y">>
kw_activities == <<"a", "c", "t", "i", "v", "i", "t", "i", "e", "s">>
kw_dining == <<"d", "i", "n", "i", "n", "g">>
kw_recommended == <<"r", "e", "c", "o", "m", "m", "e", "n", "d", "e", "d">>
kw_overall == <<"o", "v", "e", "r", "a", "l", "l">>
kw_tip == <<"t", "i", "p">>

(***************************************************************************)
(* Activity classifier                                                     *)
(***************************************************************************)
categorizeActivity_defaultsToActivity(text) ==
  LET lower == toLowerCase(text)
  IN  IF includes(lower, kw_restaurant) \/ includes(lower, kw_dinner)
         \/ includes(lower, kw_lunch) \/ includes(lower, kw_breakfast)
         \/ includes(lower, kw_cafe)
        THEN "dining"
      ELSE IF includes(lower, kw_hotel) \/ includes(lower, kw_accommodation)
         \/ includes(lower, kw_stay)
        THEN "accommodation"
      ELSE "activity"

categorizeActivity_accommodationFirst(text) ==
  LET lower == toLowerCase(text)
  IN  IF includes(lower, kw_hotel) \/ includes(lower, kw_accommodation)
         \/ includes(lower, kw_stay)
        THEN "accommodation"
      ELSE IF includes(lower, kw_restaurant) \/ includes(lower, kw_dinner)
         \/ includes(lower, kw_lunch) \/ includes(lower, kw_breakfast)
         \/ includes(lower, kw_cafe)
        THEN "dining"
      ELSE IF includes(lower, kw_tour) \/ includes(lower, kw_hike)
         \/ includes(lower, kw_adventure) \/ includes(lower, kw_activity)
        THEN "activity"
      ELSE IF includes(lower, kw_shop) \/ includes(lower, kw_market)
         \/ includes(lower, kw_store)
        THEN "shopping"
      ELSE IF includes(lower, kw_transport) \/ includes(lower, kw_taxi)
         \/ includes(lower, kw_train) \/ includes(lower, kw_bus)
        THEN "transport"
      ELSE "attraction"

categorizeActivity(text) ==
  LET lower == toLowerCase(text)
  IN  IF includes(lower, kw_restaurant) \/ includes(lower, kw_dinner)
         \/ includes(lower, kw_lunch) \/ includes(lower, kw_breakfast)
         \/ includes(lower, kw_cafe)
        THEN "dining"
      ELSE IF includes(lower, kw_hotel) \/ includes(lower, kw_accommodation)
         \/ includes(lower, kw_stay)
        THEN "accommodation"
      ELSE IF includes(lower, kw_tour) \/ includes(lower, kw_hike)
         \/ includes(lower, kw_adventure) \/ includes(lower, kw_activity)
        THEN "activity"
      ELSE IF includes(lower, kw_shop) \/ includes(lower, kw_market)
         \/ includes(lower, kw_store)
        THEN "shopping"
      ELSE IF includes(lower, kw_transport) \/ includes(lower, kw_taxi)
         \/ includes(lower, kw_train) \/ includes(lower, kw_bus)
        THEN "transport"
      ELSE "attraction"

estimateCost_activityFirst(text) ==
  LET lower == toLowerCase(text)
  IN  IF includes(lower, kw_luxury) \/ includes(lower, kw_fine_dining) THEN 150
      ELSE IF includes(lower, kw_restaurant) \/ includes(lower, kw_dinner) THEN 60
      ELSE IF includes(lower, kw_cafe) \/ includes(lower, kw_lunch) THEN 30
      ELSE IF includes(lower, kw_museum) \/ includes(lower, kw_tour) THEN 25
      ELSE IF includes(lower, kw_activity) THEN 50
      ELSE IF includes(lower, kw_hike) \/ includes(lower, kw_walk) THEN 0
      ELSE 0

estimateCost(text) ==
  LET lower == toLowerCase(text)
  IN  IF includes(lower, kw_luxury) \/ includes(lower, kw_fine_dining) THEN 150
      ELSE IF includes(lower, kw_restaurant) \/ includes(lower, kw_dinner) THEN 60
      ELSE IF includes(lower, kw_cafe) \/ includes(lower, kw_lunch) THEN 30
      ELSE IF includes(lower, kw_museum) \/ includes(lower, kw_tour) THEN 25
      ELSE IF includes(lower, kw_hike) \/ includes(lower, kw_walk) THEN 0
      ELSE IF includes(lower, kw_activity) THEN 50
      ELSE 0

\* The six values of the return type of categorizeActivity
Categories ==
  {"attraction", "dining", "accommodation", "transport", "shopping", "activity"}

CategoryKeywords ==
  {kw_restaurant, kw_dinner, kw_lunch, kw_breakfast, kw_cafe, kw_hotel,
   kw_accommodation, kw_stay, kw_tour, kw_hike, kw_adventure, kw_activity,
   kw_shop, kw_market, kw_store, kw_transport, kw_taxi, kw_train, kw_bus}

CostKeywords ==
  {kw_luxury, kw_fine_dining, kw_restaurant, kw_dinner, kw_cafe, kw_lunch,
   kw_museum, kw_tour, kw_hike, kw_walk, kw_activity}

(***************************************************************************)
(* Classifier harness: categorizeActivity and estimateCost applied to      *)
(* lines of up to MaxWords words                                           *)
(***************************************************************************)
MaxWords == 2

Vocabulary ==
  {<<"R", "e", "s", "t", "a", "u", "r", "a", "n", "t">>,
   <<"c", "a", "f", "e">>,
   <<"h", "o", "t", "e", "l">>,
   <<"s", "t", "a", "y">>,
   <<"t", "o", "u", "r">>,
   <<"h", "i", "k", "e">>,
   <<"a", "c", "t", "i", "v", "i", "t", "y">>,
   <<"s", "h", "o", "p">>,
   <<"b", "u", "s">>,
   <<"l", "u", "x", "u", "r", "y">>,
   <<"f", "i", "n", "e">>,
   <<"d", "i", "n", "i", "n", "g">>,
   <<"m", "u", "s", "e", "u", "m">>,
   <<"w", "a", "l", "k">>,
   <<"V", "i", "s", "i", "t">>,
   <<"t", "o", "w", "n">>}

RECURSIVE JoinWords(_)
JoinWords(ws) ==
  IF Len(ws) = 0 THEN <<>>
  ELSE IF Len(ws) = 1 THEN ws[1]
  ELSE ws[1] \o <<" ">> \o JoinWords(Tail(ws))

ClassifierInputs ==
  {JoinWords(ws) : ws \in UNION {[1..n -> Vocabulary] : n \in 0..MaxWords}}

NotClassified == [category |-> "none", estimatedCost |-> -1]

(***************************************************************************)
(* Line-oriented parser of the generator's text                            *)
(***************************************************************************)
\* First index >= k of s that holds no whitespace, Len(s) + 1 when there is none
FirstNonSpaceFrom(s, k) ==
  LET rest == {j \in k..Len(s) : ~IsSpace(s[j])}
  IN  IF rest = {} THEN Len(s) + 1 ELSE SetMin(rest)

\* Last index of the run of digits of s that starts at j
DigitRunEnd(s, j) ==
  SetMax({e \in j..Len(s) : \A k \in j..e : IsDigit(s[k])})

RECURSIVE parseInt(_)
parseInt(ds) ==
  IF Len(ds) = 0 THEN 0
  ELSE 10 * parseInt(SubSeq(ds, 1, Len(ds) - 1)) + DigitVal(ds[Len(ds)])

\* /[Dd]ay\s+(\d+)/ matches s from index i
DayMatchAt(s, i) ==
  /\ i + 4 <= Len(s)
  /\ s[i] \in {"D", "d"}
  /\ s[i + 1] = "a"
  /\ s[i + 2] = "y"
  /\ IsSpace(s[i + 3])
  /\ FirstNonSpaceFrom(s, i + 3) <= Len(s)
  /\ IsDigit(s[FirstNonSpaceFrom(s, i + 3)])

\* trimmedLine.match(/[Dd]ay\s+(\d+)/): the leftmost match and its group 1
dayMatch(s) ==
  LET at == {i \in 1..Len(s) : DayMatchAt(s, i)}
  IN  IF at = {} THEN [matched |-> FALSE, group1 |-> <<>>]
      ELSE LET i == SetMin(at)
               j == FirstNonSpaceFrom(s, i + 3)
           IN  [matched |-> TRUE, group1 |-> SubSeq(s, j, DigitRunEnd(s, j))]

\* trimmedLine.match(/(\d{1,2}):?(\d{2})?\s*(?:am|pm|AM|PM)?/): the pattern is
\* not anchored, so it matches at the first digit of the line, wherever it is
timeMatch(s) ==
  LET at == {i \in 1..Len(s) : IsDigit(s[i])}
  IN  IF at = {} THEN [matched |-> FALSE, group1 |-> <<>>, group2 |-> <<>>]
      ELSE LET i  == SetMin(at)
               e1 == IF i + 1 <= Len(s) /\ IsDigit(s[i + 1]) THEN i + 1 ELSE i
               k  == IF e1 + 1 <= Len(s) /\ s[e1 + 1] = ":" THEN e1 + 2 ELSE e1 + 1
               g2 == IF k + 1 <= Len(s) /\ IsDigit(s[k]) /\ IsDigit(s[k + 1])
                       THEN SubSeq(s, k, k + 1) ELSE <<>>
           IN  [matched |-> TRUE, group1 |-> SubSeq(s, i, e1), group2 |-> g2]

\* s.replace(/^[-•*]\s*/, "")
stripBullet(s) ==
  IF Len(s) > 0 /\ s[1] \in {"-", Bullet, "*"}
    THEN SubSeq(s, FirstNonSpaceFrom(s, 2), Len(s))
    ELSE s

\* s.split("-")[0]
beforeHyphen(s) ==
  LET at == {i \in 1..Len(s) : s[i] = "-"}
  IN  IF at = {} THEN s ELSE SubSeq(s, 1, SetMin(at) - 1)

startsWith(s, c) == Len(s) > 0 /\ s[1] = c

isHeaderLine_dayOnly(trimmedLine) ==
  includes(toLowerCase(trimmedLine), kw_day)

\* The test of lines 198-204: the line is a header or a section marker
isHeaderLine(trimmedLine) ==
  LET lower == toLowerCase(trimmedLine)
  IN  \/ includes(lower, kw_day)
      \/ includes(lower, kw_activities)
      \/ includes(lower, kw_dining)
      \/ includes(lower, kw_recommended)
      \/ includes(lower, kw_overall)

idOf_dayOnly(currentDay, ordinal) == <<"activity", currentDay, 0>>

\* `activity-${currentDay}-${dayActivities[currentDay].length}` (line 214)
idOf(currentDay, ordinal) == <<"activity", currentDay, ordinal>>

\* The IActivity built from an accepted line (lines 213-227)
makeActivity(trimmedLine, currentDay, ordinal, destination) ==
  LET tm == timeMatch(trimmedLine)
  IN  [id            |-> idOf(currentDay, ordinal),
       name          |-> trim(beforeHyphen(stripBullet(trimmedLine))),
       description   |-> stripBullet(trimmedLine),
       time          |-> IF tm.matched
                           THEN tm.group1 \o <<":">>
                                \o (IF tm.group2 = <<>> THEN <<"0", "0">> ELSE tm.group2)
                           ELSE <<"0", "9", ":", "0", "0">>,
       duration      |-> 120,
       location      |-> [name |-> destination, latitude |-> 0, longitude |-> 0],
       category      |-> categorizeActivity(trimmedLine),
       estimatedCost |-> estimateCost(trimmedLine),
       notes         |-> <<>>]

\* The parser's variables before the first line (lines 158-166); threw is set
\* when an iteration of the loop raises a TypeError
parseStart(numberOfDays) ==
  [dayActivities     |-> [d \in 1..numberOfDays |-> <<>>],
   currentDay        |-> 0,
   summary           |-> <<>>,
   tips              |-> <<>>,
   collectingSummary |-> TRUE,
   collectingTips    |-> FALSE,
   threw             |-> FALSE]

dayIndex_oneBased(group1, numberOfDays) ==
  LET named == parseInt(group1)
  IN  IF named >= numberOfDays THEN numberOfDays - 1 ELSE named

dayIndex_noClamp(group1, numberOfDays) == parseInt(group1) - 1

\* The current day a day marker sets (lines 182-183)
dayIndex(group1, numberOfDays) ==
  LET named == parseInt(group1) - 1
  IN  IF named >= numberOfDays THEN numberOfDays - 1 ELSE named

inTrip_unguarded(currentDay, numberOfDays) == TRUE

inTrip_noLowerBound(currentDay, numberOfDays) == currentDay < numberOfDays

\* The guard on the current day of line 196
inTrip(currentDay, numberOfDays) == currentDay >= 0 /\ currentDay < numberOfDays

\* The test of line 172: the line belongs to the summary
summaryLine(collectingSummary, trimmedLine) ==
  collectingSummary /\ ~includes(trimmedLine, <<"D", "a", "y">>)

tipsLine_notSticky(collectingTips, trimmedLine) ==
  includes(toLowerCase(trimmedLine), kw_tip)

\* The test of line 188: the line belongs to the tips
tipsLine(collectingTips, trimmedLine) ==
  includes(toLowerCase(trimmedLine), kw_tip) \/ collectingTips

\* One iteration of the loop over the lines (lines 168-232).  Reading
\* dayActivities[currentDay].length of a list that does not exist raises a
\* TypeError, which ends the loop
parseLine(p, line, numberOfDays, destination) ==
  LET trimmedLine == trim(line)
      lower       == toLowerCase(trimmedLine)
      summary1    == IF /\ summaryLine(p.collectingSummary, trimmedLine)
                        /\ Len(trimmedLine) > 0
                       THEN p.summary \o trimmedLine \o <<" ">>
                       ELSE p.summary
      dm          == dayMatch(trimmedLine)
      tipsOn      == tipsLine(p.collectingTips, trimmedLine)
      tips1       == IF tipsOn /\ Len(trimmedLine) > 0 /\ ~includes(lower, kw_overall)
                       THEN p.tips \o trimmedLine \o <<" ">>
                       ELSE p.tips
      accepted    == /\ inTrip(p.currentDay, numberOfDays)
                     /\ Len(trimmedLine) > 0
                     /\ ~isHeaderLine(trimmedLine)
                     /\ \/ timeMatch(trimmedLine).matched
                        \/ Len(trimmedLine) > 10 /\ ~startsWith(trimmedLine, Bullet)
      d           == p.currentDay + 1
  IN  IF p.threw THEN p
      ELSE IF dm.matched
        THEN [p EXCEPT !.summary = summary1,
                       !.collectingSummary = FALSE,
                       !.currentDay = dayIndex(dm.group1, numberOfDays)]
      ELSE IF accepted /\ d \notin DOMAIN p.dayActivities
        THEN [p EXCEPT !.summary = summary1,
                       !.collectingTips = tipsOn,
                       !.tips = tips1,
                       !.threw = TRUE]
      ELSE [p EXCEPT !.summary = summary1,
                     !.collectingTips = tipsOn,
                     !.tips = tips1,
                     !.dayActivities =
                        IF accepted
                          THEN [p.dayActivities EXCEPT ![d] =
                                   Append(@, makeActivity(trimmedLine, p.currentDay,
                                                          Len(@), destination))]
                          ELSE p.dayActivities]

\* The StructuredItinerary returned after the loop (lines 234-238)
parseResult(p) ==
  [summary       |-> trim(p.summary),
   dayActivities |-> p.dayActivities,
   tips          |-> trim(p.tips)]

RECURSIVE parseLines(_, _, _, _)
parseLines(p, lines, numberOfDays, destination) ==
  IF Len(lines) = 0 THEN p
  ELSE parseLines(parseLine(p, Head(lines), numberOfDays, destination),
                  Tail(lines), numberOfDays, destination)

\* parseAIResponse(response, numberOfDays, destination); response.split("\n")
\* is the sequence of lines the text is given as
parseAIResponse(response, numberOfDays, destination) ==
  parseResult(parseLines(parseStart(numberOfDays), response, numberOfDays,
                         destination))

(***************************************************************************)
(* Parser harness: the loop of parseAIResponse run line by line over texts *)
(* of up to MaxLines lines, for trips of up to MaxDays days                *)
(***************************************************************************)
MaxLines == 4
MaxDays == 2

\* "Day 1"
LineDay1 ==
  <<"D", "a", "y", " ", "1">>
\* "Day 9"
LineDay9 ==
  <<"D", "a", "y", " ", "9">>
\* "Day 0"
LineDay0 ==
  <<"D", "a", "y", " ", "0">>
\* "day 2"
LineLowerDay2 ==
  <<"d", "a", "y", " ", "2">>
\* "9:00 AM Visit the old town"
LineVisit ==
  <<"9", ":", "0", "0", " ", "A", "M", " ", "V", "i", "s", "i", "t", " ", "t", "h", "e", " ", "o", "l", "d", " ", "t", "o", "w", "n">>
\* "Dinner at a seaside restaurant"
LineDinner ==
  <<"D", "i", "n", "n", "e", "r", " ", "a", "t", " ", "a", " ", "s", "e", "a", "s", "i", "d", "e", " ", "r", "e", "s", "t", "a", "u", "r", "a", "n", "t">>
\* "Tips: bring sunscreen"
LineTips ==
  <<"T", "i", "p", "s", ":", " ", "b", "r", "i", "n", "g", " ", "s", "u", "n", "s", "c", "r", "e", "e", "n">>

ParserLines ==
  {LineDay1, LineDay9, LineDay0, LineLowerDay2,
   LineVisit, LineDinner, LineTips}

\* The lines read by the second run of the loop, over texts of up to MaxRead
\* lines: an empty line, markers, headers, bulleted, short and timed lines
MaxRead == 3

\* ""
LineEmpty ==
  <<>>
\* "Day 2 tips"
LineDay2Tips ==
  <<"D", "a", "y", " ", "2", " ", "t", "i", "p", "s">>
\* "8:00 Overall"
LineOverall ==
  <<"8", ":", "0", "0", " ", "O", "v", "e", "r", "a", "l", "l">>
\* "- Visit the castle"
LineHyphen ==
  <<"-", " ", "V", "i", "s", "i", "t", " ", "t", "h", "e", " ", "c", "a", "s", "t", "l", "e">>
\* "Room 5"
LineRoom ==
  <<"R", "o", "o", "m", " ", "5">>
\* "(bullet) Free afternoon"
LineBullet ==
  <<Bullet, " ", "F", "r", "e", "e", " ", "a", "f", "t", "e", "r", "n", "o", "o", "n">>
\* "Relax"
LineShort ==
  <<"R", "e", "l", "a", "x">>
\* "9 AM Swim"
LineNine ==
  <<"9", " ", "A", "M", " ", "S", "w", "i", "m">>
\* "7 PM Dining out"
LineDining ==
  <<"7", " ", "P", "M", " ", "D", "i", "n", "i", "n", "g", " ", "o", "u", "t">>
\* "2:30 Activities"
LineActivities ==
  <<"2", ":", "3", "0", " ", "A", "c", "t", "i", "v", "i", "t", "i", "e", "s">>
\* "8:00 Recommended"
LineRecommended ==
  <<"8", ":", "0", "0", " ", "R", "e", "c", "o", "m", "m", "e", "n", "d", "e", "d">>

ActivityLines ==
  {LineEmpty, LineDay1, LineDay2Tips, LineTips, LineOverall, LineDining,
   LineActivities, LineRecommended, LineHyphen, LineRoom, LineBullet,
   LineShort, LineVisit, LineNine}

NotParsed == [kind |-> "none"]

(***************************************************************************)
(* Dates.  A timestamp counts units of 1 / UnitsPerDay of a day, so that   *)
(* Math.ceil has fractions of a day to round up.                           *)
(***************************************************************************)
\* 1000 * 60 * 60 * 24 milliseconds, in units
UnitsPerDay == 2

MaxStart == 1
MaxEnd == 3
StartDates == 0..MaxStart
EndDates == 0..MaxEnd

\* Math.ceil((end.getTime() - start.getTime()) / (1000 * 60 * 60 * 24))
ceilDays(start, end) == -((-(end - start)) \div UnitsPerDay)

\* d = new Date(start); d.setDate(d.getDate() + i)
addDays(start, i) == start + i * UnitsPerDay

\* date.toISOString().split("T")[0]: the calendar day the timestamp falls in
toISODate(t) == t \div UnitsPerDay

\* new Date(isoDate).getTime(): midnight of the calendar day
dateToTime(d) == d * UnitsPerDay

(***************************************************************************)
(* Errors and the error middleware                                         *)
(***************************************************************************)
\* new AppError(message, statusCode, code); code "" when not given
AppError(message, statusCode, code) ==
  [isAppError |-> TRUE, message |-> message, statusCode |-> statusCode, code |-> code]

\* new Error(message)
PlainError(message) ==
  [isAppError |-> FALSE, message |-> message, statusCode |-> 0, code |-> ""]

\* What the caller of a service receives when the service throws err
Thrown(err) ==
  [kind |-> "error", statusCode |-> err.statusCode, code |-> err.code,
   message |-> err.message]

\* errorHandler: the response sent for an error that reaches next(err)
errorHandler(err) ==
  LET error == IF err.isAppError THEN err
               ELSE AppError(err.message, 500, "INTERNAL_ERROR")
  IN  [kind       |-> "error",
       statusCode |-> IF error.statusCode = 0 THEN 500 ELSE error.statusCode,
       code       |-> IF error.code = "" THEN "INTERNAL_ERROR" ELSE error.code,
       message    |-> error.message]

\* What the caller of a service receives when the service returns body
Returned(body) == [kind |-> "ok", body |-> body]

\* res.status(statusCode).json(body)
Responded(statusCode, body) ==
  [kind |-> "ok", statusCode |-> statusCode, body |-> body]

NoResult == [kind |-> "none"]

(***************************************************************************)
(* The text-generation provider as generateTravelItinerary sees it         *)
(***************************************************************************)
TextPlan ==
  <<<<"A", " ", "s", "h", "o", "r", "t", " ", "t", "r", "i", "p">>,
    <<"D", "a", "y", " ", "1">>,
    <<"9", ":", "0", "0", " ", "A", "M", " ", "V", "i", "s", "i", "t", " ", "t", "h", "e", " ", "o", "l", "d", " ", "t", "o", "w", "n">>,
    <<"D", "a", "y", " ", "2">>,
    <<"D", "i", "n", "n", "e", "r", " ", "a", "t", " ", "a", " ", "s", "e", "a", "s", "i", "d", "e", " ", "r", "e", "s", "t", "a", "u", "r", "a", "n", "t">>,
    <<"T", "i", "p", "s", ":", " ", "b", "r", "i", "n", "g", " ", "s", "u", "n", "s", "c", "r", "e", "e", "n">>>>

\* Lines that are neither day markers nor long enough to be activities
TextNoPlan ==
  <<<<"N", "o", " ", "p", "l", "a", "n">>,
    <<"S", "o", "r", "r", "y">>>>

\* Prose without any day marker
TextProse ==
  <<<<"U", "n", "a", "b", "l", "e", " ", "t", "o", " ", "b", "u", "i", "l", "d", " ", "a", " ", "p", "l", "a", "n">>>>

AITexts == {TextPlan, TextNoPlan, TextProse}

\* Outcomes of axios.post: a 2xx answer with content (a sequence of lines, empty
\* for "" or a missing content), a 2xx answer without choices, an error answer
\* with a status, or an error without any answer
TextGenOutcomes ==
  {[kind |-> "ok", status |-> 200, content |-> c] : c \in AITexts \cup {<<>>}}
    \cup {[kind |-> "nochoices", status |-> 200, content |-> <<>>]}
    \cup {[kind |-> "http", status |-> s, content |-> <<>>] :
             s \in {401, 403, 405, 429, 500}}
    \cup {[kind |-> k, status |-> 0, content |-> <<>>] : k \in {"timeout", "network"}}

\* axios.isAxiosError(error) for the error axios.post rejects with
isAxiosError(outcome) == outcome.kind \in {"http", "timeout", "network"}

generateTravelItinerary_degrades(outcome, numberOfDays, destination) ==
  IF outcome.kind = "ok" /\ Len(outcome.content) > 0
    THEN [ok    |-> TRUE,
          value |-> parseAIResponse(outcome.content,
                                    IF numberOfDays = 0 THEN 1 ELSE numberOfDays,
                                    destination)]
  ELSE IF outcome.status = 429
    THEN [ok |-> FALSE,
          error |-> AppError("OpenRouter API rate limit exceeded. Please try again later.",
                             429, "RATE_LIMIT_ERROR")]
  ELSE [ok    |-> TRUE,
        value |-> parseAIResponse(<<>>, IF numberOfDays = 0 THEN 1 ELSE numberOfDays,
                                  destination)]

generateTravelItinerary_noRateLimitBranch(outcome, numberOfDays, destination) ==
  IF outcome.kind = "ok" /\ Len(outcome.content) > 0
    THEN [ok    |-> TRUE,
          value |-> parseAIResponse(outcome.content,
                                    IF numberOfDays = 0 THEN 1 ELSE numberOfDays,
                                    destination)]
  ELSE IF ~isAxiosError(outcome)
    THEN [ok |-> FALSE,
          error |-> AppError("Failed to generate itinerary with AI", 500,
                             "AI_SERVICE_ERROR")]
  ELSE [ok |-> FALSE,
        error |-> AppError("OpenRouter API Error", 500, "AI_SERVICE_ERROR")]

\* generateTravelItinerary from the answer of axios.post on (lines 352-407): the
\* structured itinerary it returns, or the AppError its catch block throws
generateTravelItinerary(outcome, numberOfDays, destination) ==
  IF outcome.kind = "ok" /\ Len(outcome.content) > 0
    THEN [ok    |-> TRUE,
          value |-> parseAIResponse(outcome.content,
                                    IF numberOfDays = 0 THEN 1 ELSE numberOfDays,
                                    destination)]
  ELSE IF ~isAxiosError(outcome)
    \* the AppError "Invalid response format" thrown inside the try block
    THEN [ok |-> FALSE,
          error |-> AppError("Failed to generate itinerary with AI", 500,
                             "AI_SERVICE_ERROR")]
  ELSE IF outcome.status = 405
    THEN [ok |-> FALSE,
          error |-> AppError("OpenRouter API Error: 405", 500, "AI_SERVICE_ERROR")]
  ELSE IF outcome.status = 401 \/ outcome.status = 403
    THEN [ok |-> FALSE,
          error |-> AppError("OpenRouter API authentication failed. Invalid API key.",
                             500, "AI_SERVICE_ERROR")]
  ELSE IF outcome.status = 429
    THEN [ok |-> FALSE,
          error |-> AppError("OpenRouter API rate limit exceeded. Please try again later.",
                             429, "RATE_LIMIT_ERROR")]
  ELSE [ok |-> FALSE,
        error |-> AppError("OpenRouter API Error", 500, "AI_SERVICE_ERROR")]

\* The error generateTravelItinerary throws when OPENROUTER_API_KEY is not set:
\* the CONFIG_ERROR thrown in the try block is caught and replaced (lines 294-300,
\* 402-406)
missingKeyError ==
  AppError("Failed to generate itinerary with AI", 500, "AI_SERVICE_ERROR")

(***************************************************************************)
(* weather.service and the Itinerary model of the service generation are   *)
(* not in the repository's sources: they follow the specification          *)
(***************************************************************************)
\* getCoordinatesByDestination: the coordinates, or GeocodingFailed
GeoOutcomes == {"ok", "fail"}
Coordinates == [latitude |-> 38, longitude |-> -9]
NoCoordinates == [latitude |-> 0, longitude |-> 0]
GeocodingFailed == AppError("Failed to get coordinates", 500, "GEOCODING_FAILED")

\* getWeatherForecast(latitude, longitude, days): one snapshot per day, from the
\* provider or, when the provider fails, generated locally; it never throws
WeatherOutcomes == {"ok", "fail"}
getWeatherForecast(outcome, days) ==
  [i \in 1..days |->
     [temp |-> 18, condition |-> IF outcome = "ok" THEN "provider" ELSE "pseudo"]]

\* The weather of a day the forecast has no entry for (lines 114-120)
DefaultWeather == [temp |-> 20, condition |-> "Clear"]

(***************************************************************************)
(* generateAIItineraryService and createItineraryService                   *)
(***************************************************************************)
InvalidDateRange ==
  AppError("End date must be after start date", 400, "INVALID_DATE_RANGE")

dateRangeRejected_equalAllowed(start, end) == start > end

\* if (start >= end) throw ...: the check of every entry point that takes dates
dateRangeRejected(start, end) == start >= end

RECURSIVE joinNames_spaces(_)
joinNames_spaces(activities) ==
  IF Len(activities) = 0 THEN <<>>
  ELSE IF Len(activities) = 1 THEN activities[1].name
  ELSE activities[1].name \o <<" ">> \o joinNames_spaces(Tail(activities))

RECURSIVE joinNames(_)
\* activities.map((a) => a.name).join(" • ")
joinNames(activities) ==
  IF Len(activities) = 0 THEN <<>>
  ELSE IF Len(activities) = 1 THEN activities[1].name
  ELSE activities[1].name \o <<" ", Bullet, " ">> \o joinNames(Tail(activities))

\* The dayItineraries generateAIItineraryService builds (lines 103-124)
aiDayItineraries(start, duration, weatherForecast, aiResponse) ==
  [i \in 1..duration |->
     LET dailyActivities == IF i <= Len(aiResponse.dayActivities)
                              THEN aiResponse.dayActivities[i] ELSE <<>>
     IN  [day        |-> i,
          date       |-> addDays(start, i - 1),
          weather    |-> IF i <= Len(weatherForecast)
                           THEN weatherForecast[i] ELSE DefaultWeather,
          activities |-> dailyActivities,
          summary    |-> joinNames(dailyActivities)]]

aiItinerary_notTagged(r, duration, coordinates, dayItineraries, aiResponse) ==
  [userId         |-> r.userId,
   destination    |-> r.destination,
   coordinates    |-> coordinates,
   startDate      |-> r.startDate,
   endDate        |-> r.endDate,
   duration       |-> duration,
   dayItineraries |-> dayItineraries,
   travelStyle    |-> "comfort",
   aiGenerated    |-> FALSE,
   aiNotes        |-> IF aiResponse.summary # <<>> THEN aiResponse.summary
                      ELSE aiResponse.tips]

\* The document generateAIItineraryService creates (lines 126-139)
aiItinerary(r, duration, coordinates, dayItineraries, aiResponse) ==
  [userId         |-> r.userId,
   destination    |-> r.destination,
   coordinates    |-> coordinates,
   startDate      |-> r.startDate,
   endDate        |-> r.endDate,
   duration       |-> duration,
   dayItineraries |-> dayItineraries,
   travelStyle    |-> "comfort",
   aiGenerated    |-> TRUE,
   aiNotes        |-> IF aiResponse.summary # <<>> THEN aiResponse.summary
                      ELSE aiResponse.tips]

\* The dayItineraries createItineraryService builds (lines 34-44)
emptyDayItineraries(start, duration) ==
  [i \in 1..duration |->
     [day |-> i, date |-> addDays(start, i - 1), activities |-> <<>>]]

\* The document createItineraryService creates (lines 46-58)
userItinerary(r, duration, coordinates) ==
  [userId         |-> r.userId,
   destination    |-> r.destination,
   coordinates    |-> coordinates,
   startDate      |-> r.startDate,
   endDate        |-> r.endDate,
   duration       |-> duration,
   dayItineraries |-> emptyDayItineraries(r.startDate, duration),
   travelStyle    |-> "comfort",
   aiGenerated    |-> FALSE]

(***************************************************************************)
(* WeatherService (used by the generateItinerary controller)               *)
(***************************************************************************)
\* Math.round(lo + Math.random() * width): some integer of lo..(lo + width); the
\* draw is kept as its range
randomIn(lo, width) == [min |-> lo, max |-> lo + width]

\* getMockWeather(startDate, endDate)
getMockWeather(startDate, endDate) ==
  LET days == ceilDays(startDate, endDate) + 1
  IN  [i \in 1..days |->
         [date        |-> toISODate(addDays(startDate, i - 1)),
          temp        |-> randomIn(20, 10),
          feelsLike   |-> randomIn(20, 10),
          description |-> "Partly cloudy",
          humidity    |-> randomIn(50, 30),
          windSpeed   |-> randomIn(10, 10),
          icon        |-> "04d"]]

\* The forecast provider answers for the calendar days 0..MaxForecastDay
MaxForecastDay == 2

RECURSIVE inRange(_, _, _)
\* .filter(weatherTime >= startTime && weatherTime <= endTime) over the days
\* from..MaxForecastDay of the provider's answer (lines 92-100)
inRange(from, startTime, endTime) ==
  IF from > MaxForecastDay THEN <<>>
  ELSE (IF dateToTime(from) >= startTime /\ dateToTime(from) <= endTime
          THEN <<[date |-> from, temp |-> 15, feelsLike |-> 14,
                  description |-> "clear sky", humidity |-> 60,
                  windSpeed |-> 12, icon |-> "01d"]>>
          ELSE <<>>)
       \o inRange(from + 1, startTime, endTime)

\* Outcomes of the two axios.get calls of getWeatherForecast: the answer
\* "malformed" has no list (or no coord) to read
ProviderOutcomes == {"ok", "malformed", "fail"}

(***************************************************************************)
(* AIService                                                               *)
(***************************************************************************)
\* An element of the JSON array the generator answers with: null, or an object
\* whose missing fields are ""
NullDay == [isNull |-> TRUE, morning |-> "", afternoon |-> "", evening |-> "",
            notes |-> ""]
SparseDay == [isNull |-> FALSE, morning |-> "", afternoon |-> "Harbour walk",
              evening |-> "Fado night", notes |-> "Book ahead"]
DayElems == {NullDay, SparseDay}

MaxElems == 3

\* The content of the generator's answer: null, text without "[...]", a bracketed
\* text JSON.parse rejects, or a JSON array
JsonContents ==
  {[shape |-> s, elems |-> <<>>] : s \in {"null", "prose", "badjson"}}
    \cup {[shape |-> "array", elems |-> e] :
            e \in UNION {[1..n -> DayElems] : n \in 0..MaxElems}}

\* Outcomes of axios.post for AIService
JsonGenOutcomes ==
  {[kind |-> "ok", status |-> 200, content |-> c] : c \in JsonContents}
    \cup {[kind |-> "nochoices", status |-> 200,
           content |-> [shape |-> "null", elems |-> <<>>]]}
    \cup {[kind |-> "http", status |-> s,
           content |-> [shape |-> "null", elems |-> <<>>]] : s \in {401, 429, 500}}
    \cup {[kind |-> k, status |-> 0,
           content |-> [shape |-> "null", elems |-> <<>>]] : k \in {"timeout", "network"}}

createFallbackItinerary_sameDate(startDate, days) ==
  [i \in 1..days |->
     [day       |-> i,
      date      |-> toISODate(startDate),
      morning   |-> "Explore local attractions and landmarks",
      afternoon |-> "Visit museums or cultural sites",
      evening   |-> "Dinner at local restaurant",
      notes     |-> "Adjust based on your preferences"]]

\* createFallbackItinerary(startDate, days)
createFallbackItinerary(startDate, days) ==
  [i \in 1..days |->
     [day       |-> i,
      date      |-> toISODate(addDays(startDate, i - 1)),
      morning   |-> "Explore local attractions and landmarks",
      afternoon |-> "Visit museums or cultural sites",
      evening   |-> "Dinner at local restaurant",
      notes     |-> "Adjust based on your preferences"]]

orFreeTime(s) == IF s = "" THEN "Free time" ELSE s

parseItinerary_noFallback(content, startDate, days) ==
  IF content.shape = "array" /\ \A k \in 1..Len(content.elems) : ~content.elems[k].isNull
    THEN [index \in 1..Len(content.elems) |->
            [day       |-> index,
             date      |-> toISODate(addDays(startDate, index - 1)),
             morning   |-> orFreeTime(content.elems[index].morning),
             afternoon |-> orFreeTime(content.elems[index].afternoon),
             evening   |-> orFreeTime(content.elems[index].evening),
             notes     |-> content.elems[index].notes]]
    ELSE <<>>

\* parseItinerary(content, startDate, days): content.match and JSON.parse run
\* inside the try block, so a null content, a rejected text and a null element
\* all end in the fallback
parseItinerary(content, startDate, days) ==
  IF content.shape = "array" /\ \A k \in 1..Len(content.elems) : ~content.elems[k].isNull
    THEN [index \in 1..Len(content.elems) |->
            [day       |-> index,
             date      |-> toISODate(addDays(startDate, index - 1)),
             morning   |-> orFreeTime(content.elems[index].morning),
             afternoon |-> orFreeTime(content.elems[index].afternoon),
             evening   |-> orFreeTime(content.elems[index].evening),
             notes     |-> content.elems[index].notes]]
    ELSE createFallbackItinerary(startDate, days)

\* The number of days AIService.generateItinerary asks for (lines 44-47)
aiServiceDays(startDate, endDate) == ceilDays(startDate, endDate) + 1

\* AIService.generateItinerary from the answer of axios.post on (lines 76-81)
aiGenerateItinerary(outcome, startDate, endDate) ==
  IF outcome.kind = "ok"
    THEN [ok |-> TRUE,
          value |-> parseItinerary(outcome.content, startDate,
                                   aiServiceDays(startDate, endDate))]
    ELSE [ok |-> FALSE, error |-> PlainError("Failed to generate itinerary")]

\* extractLocations(itinerary, destination)
extractLocations(itinerary, destination) ==
  <<[name |-> "City Center", lat |-> 0, lng |-> 0, type |-> "attraction"]>>

\* The content of the generator's answer to regenerateDay: null, text without
\* "{...}", a braced text JSON.parse rejects, or a JSON object
DayContents ==
  {[shape |-> s, obj |-> NullDay] : s \in {"null", "prose", "badjson"}}
    \cup {[shape |-> "object", obj |-> SparseDay]}

DayGenOutcomes ==
  {[kind |-> "ok", status |-> 200, content |-> c] : c \in DayContents}
    \cup {[kind |-> "nochoices", status |-> 200,
           content |-> [shape |-> "null", obj |-> NullDay]]}
    \cup {[kind |-> "http", status |-> s,
           content |-> [shape |-> "null", obj |-> NullDay]] : s \in {401, 429, 500}}
    \cup {[kind |-> k, status |-> 0,
           content |-> [shape |-> "null", obj |-> NullDay]] : k \in {"timeout", "network"}}

fallbackDay_firstDay(dayNumber, date) ==
  [day       |-> 1,
   date      |-> date,
   morning   |-> "Explore local area",
   afternoon |-> "Visit popular attractions",
   evening   |-> "Enjoy local cuisine",
   notes     |-> "Adjust based on preferences"]

\* The object the catch block of regenerateDay returns (lines 259-268)
fallbackDay(dayNumber, date) ==
  [day       |-> dayNumber,
   date      |-> date,
   morning   |-> "Explore local area",
   afternoon |-> "Visit popular attractions",
   evening   |-> "Enjoy local cuisine",
   notes     |-> "Adjust based on preferences"]

\* AIService.regenerateDay from the answer of axios.post on (lines 243-268)
aiRegenerateDay(outcome, dayNumber, date) ==
  IF outcome.kind = "ok" /\ outcome.content.shape = "object"
    THEN [day       |-> dayNumber,
          date      |-> date,
          morning   |-> orFreeTime(outcome.content.obj.morning),
          afternoon |-> orFreeTime(outcome.content.obj.afternoon),
          evening   |-> orFreeTime(outcome.content.obj.evening),
          notes     |-> outcome.content.obj.notes]
    ELSE fallbackDay(dayNumber, date)

(***************************************************************************)
(* The requests                                                            *)
(***************************************************************************)
Users == {"u1"}

\* Documents the collection may hold before no further request is started
MaxStore == 1

\* "Maximum trip duration is 14 days"
MaxTripDays == 14

MaxDayNumber == 2
RegenDates == {"", "2024-06-01"}

NoOutcome == [kind |-> "none", status |-> 0, content |-> <<>>]
NoDoc == [userId |-> "none"]

\* The locals of a handler, and the answers the providers gave it
NoLoc ==
  [duration    |-> 0,
   coordinates |-> NoCoordinates,
   weather     |-> <<>>,
   doc         |-> NoDoc,
   geo         |-> "none",
   forecast    |-> "none",
   text        |-> NoOutcome]

Free == pc = "idle" /\ Len(store) < MaxStore

\* No request is suspended
NoCall == [pc |-> "idle", req |-> [entry |-> "none"], loc |-> NoLoc,
           calls |-> <<>>, result |-> NoResult]

Harness == UNCHANGED <<cText, cOut, pDays, pFed, pState, pOut, parked, saved>>

\* generateAIItineraryService up to its first await (lines 74-86)
BeginAI ==
  /\ Free
  /\ \E u \in Users, s \in StartDates, e \in EndDates :
       /\ req' = [entry |-> "generateAIItineraryService", userId |-> u,
                  destination |-> "Lisbon", startDate |-> s, endDate |-> e]
       /\ IF dateRangeRejected(s, e)
            THEN /\ result' = Thrown(InvalidDateRange)
                 /\ pc' = "done"
                 /\ calls' = <<>>
                 /\ loc' = NoLoc
            ELSE /\ result' = NoResult
                 /\ pc' = "ai_geo"
                 /\ calls' = <<"geocoding">>
                 /\ loc' = [NoLoc EXCEPT !.duration = ceilDays(s, e)]
  /\ UNCHANGED <<apiKey, store>>
  /\ Harness

AIGeocoded_defaultsCoordinates ==
  /\ pc = "ai_geo"
  /\ \E o \in GeoOutcomes :
       /\ result' = result
       /\ pc' = "ai_weather"
       /\ calls' = Append(calls, "weather")
       /\ loc' = [loc EXCEPT !.geo = o,
                             !.coordinates = IF o = "fail" THEN NoCoordinates
                                             ELSE Coordinates]
  /\ UNCHANGED <<apiKey, req, store>>
  /\ Harness

\* getCoordinatesByDestination settles (lines 86-89)
AIGeocoded ==
  /\ pc = "ai_geo"
  /\ \E o \in GeoOutcomes :
       IF o = "fail"
         THEN /\ result' = Thrown(GeocodingFailed)
              /\ pc' = "done"
              /\ calls' = calls
              /\ loc' = [loc EXCEPT !.geo = o]
         ELSE /\ result' = result
              /\ pc' = "ai_weather"
              /\ calls' = Append(calls, "weather")
              /\ loc' = [loc EXCEPT !.geo = o, !.coordinates = Coordinates]
  /\ UNCHANGED <<apiKey, req, store>>
  /\ Harness

\* getWeatherForecast settles and generateTravelItinerary runs up to axios.post
\* (lines 89-100, weatherService.ts 293-350)
AIForecast ==
  /\ pc = "ai_weather"
  /\ \E o \in WeatherOutcomes :
       /\ loc' = [loc EXCEPT !.forecast = o,
                             !.weather = getWeatherForecast(o, loc.duration)]
       /\ IF apiKey
            THEN /\ result' = result
                 /\ pc' = "ai_text"
                 /\ calls' = Append(calls, "textgen")
            ELSE /\ result' = Thrown(missingKeyError)
                 /\ pc' = "done"
                 /\ calls' = calls
  /\ UNCHANGED <<apiKey, req, store>>
  /\ Harness

\* axios.post settles; the day itineraries are assembled and Itinerary.create
\* is called (lines 92-139)
AIText ==
  /\ pc = "ai_text"
  /\ \E o \in TextGenOutcomes :
       LET r == generateTravelItinerary(o, loc.duration, req.destination)
       IN  IF r.ok
             THEN /\ result' = result
                  /\ pc' = "ai_save"
                  /\ loc' = [loc EXCEPT
                       !.text = o,
                       !.doc = aiItinerary(req, loc.duration, loc.coordinates,
                                 aiDayItineraries(req.startDate, loc.duration,
                                                  loc.weather, r.value),
                                 r.value)]
             ELSE /\ result' = Thrown(r.error)
                  /\ pc' = "done"
                  /\ loc' = [loc EXCEPT !.text = o]
  /\ UNCHANGED <<apiKey, req, calls, store>>
  /\ Harness

\* Itinerary.create settles (lines 126-147)
AISaved ==
  /\ pc = "ai_save"
  /\ store' = Append(store, loc.doc)
  /\ result' = Returned([success |-> TRUE, itinerary |-> loc.doc])
  /\ pc' = "done"
  /\ UNCHANGED <<apiKey, req, loc, calls>>
  /\ Harness

\* createItineraryService up to its first await (lines 19-31)
BeginCreate ==
  /\ Free
  /\ \E u \in Users, s \in StartDates, e \in EndDates :
       /\ req' = [entry |-> "createItineraryService", userId |-> u,
                  destination |-> "Lisbon", startDate |-> s, endDate |-> e]
       /\ IF dateRangeRejected(s, e)
            THEN /\ result' = Thrown(InvalidDateRange)
                 /\ pc' = "done"
                 /\ calls' = <<>>
                 /\ loc' = NoLoc
            ELSE /\ result' = NoResult
                 /\ pc' = "create_geo"
                 /\ calls' = <<"geocoding">>
                 /\ loc' = [NoLoc EXCEPT !.duration = ceilDays(s, e)]
  /\ UNCHANGED <<apiKey, store>>
  /\ Harness

\* getCoordinatesByDestination settles and Itinerary.create is called
\* (lines 31-58)
CreateGeocoded ==
  /\ pc = "create_geo"
  /\ \E o \in GeoOutcomes :
       IF o = "fail"
         THEN /\ result' = Thrown(GeocodingFailed)
              /\ pc' = "done"
              /\ loc' = [loc EXCEPT !.geo = o]
         ELSE /\ result' = result
              /\ pc' = "create_save"
              /\ loc' = [loc EXCEPT !.geo = o, !.coordinates = Coordinates,
                                    !.doc = userItinerary(req, loc.duration, Coordinates)]
  /\ UNCHANGED <<apiKey, req, calls, store>>
  /\ Harness

\* Itinerary.create settles (lines 46-65)
CreateSaved ==
  /\ pc = "create_save"
  /\ store' = Append(store, loc.doc)
  /\ result' = Returned([success |-> TRUE, itinerary |-> loc.doc])
  /\ pc' = "done"
  /\ UNCHANGED <<apiKey, req, loc, calls>>
  /\ Harness

(***************************************************************************)
(* The generateItinerary and regenerateDay controllers                     *)
(***************************************************************************)
\* generateItinerary up to the first await of getWeatherForecast (part_000
\* lines 15-44, weatherService.ts 51-53)
BeginGenerateOn(starts, ends) ==
  /\ Free
  /\ \E f \in BOOLEAN, s \in starts, e \in ends :
       /\ req' = [entry |-> "generateItinerary", hasFields |-> f,
                  destination |-> "Lisbon", startDate |-> s, endDate |-> e]
       /\ IF ~f
            THEN /\ result' = errorHandler(AppError(
                       "Destination, start date, and end date are required", 400, ""))
                 /\ pc' = "done"
                 /\ calls' = <<>>
          ELSE IF dateRangeRejected(s, e)
            THEN /\ result' = errorHandler(AppError(
                       "End date must be after start date", 400, ""))
                 /\ pc' = "done"
                 /\ calls' = <<>>
          ELSE IF ceilDays(s, e) > MaxTripDays
            THEN /\ result' = errorHandler(AppError(
                       "Maximum trip duration is 14 days", 400, ""))
                 /\ pc' = "done"
                 /\ calls' = <<>>
          ELSE /\ result' = NoResult
               /\ pc' = "ctl_coords"
               /\ calls' = <<"geocoding">>
  /\ loc' = NoLoc
  /\ UNCHANGED <<apiKey, store>>
  /\ Harness

BeginGenerate == BeginGenerateOn(StartDates, EndDates)

\* The same for trips that start at 0 and whose span is half a day under the
\* maximum, the maximum, and half a day over it
LongEndDates ==
  {MaxTripDays * UnitsPerDay - 1, MaxTripDays * UnitsPerDay,
   MaxTripDays * UnitsPerDay + 1}

BeginGenerateLong == BeginGenerateOn({0}, LongEndDates)

\* WeatherService.getCoordinates settles.  Its error is caught by the catch block
\* of getWeatherForecast, which answers with getMockWeather; the controller then
\* calls AIService.generateItinerary (weatherService.ts 27-63, 103-107)
GenerateCoords ==
  /\ pc = "ctl_coords"
  /\ \E o \in ProviderOutcomes :
       IF o = "ok"
         THEN /\ pc' = "ctl_forecast"
              /\ calls' = Append(calls, "weather")
              /\ loc' = [loc EXCEPT !.geo = o]
         ELSE /\ pc' = "ctl_text"
              /\ calls' = Append(calls, "textgen")
              /\ loc' = [loc EXCEPT
                   !.geo = o,
                   !.weather = getMockWeather(req.startDate, req.endDate)]
  /\ UNCHANGED <<apiKey, req, store, result>>
  /\ Harness

GenerateForecast_rethrows ==
  /\ pc = "ctl_forecast"
  /\ \E o \in ProviderOutcomes :
       IF o = "ok"
         THEN /\ loc' = [loc EXCEPT
                   !.forecast = o,
                   !.weather = inRange(0, req.startDate, req.endDate)]
              /\ pc' = "ctl_text"
              /\ calls' = Append(calls, "textgen")
              /\ result' = result
         ELSE /\ loc' = [loc EXCEPT !.forecast = o]
              /\ pc' = "done"
              /\ calls' = calls
              /\ result' = errorHandler(PlainError("Weather API Error"))
  /\ UNCHANGED <<apiKey, req, store>>
  /\ Harness

\* The forecast request settles; the controller then calls
\* AIService.generateItinerary (weatherService.ts 56-107, part_000 46-53)
GenerateForecast ==
  /\ pc = "ctl_forecast"
  /\ \E o \in ProviderOutcomes :
       /\ IF o = "ok"
            THEN loc' = [loc EXCEPT
                   !.forecast = o,
                   !.weather = inRange(0, req.startDate, req.endDate)]
            ELSE loc' = [loc EXCEPT
                   !.forecast = o,
                   !.weather = getMockWeather(req.startDate, req.endDate)]
       /\ pc' = "ctl_text"
       /\ calls' = Append(calls, "textgen")
  /\ UNCHANGED <<apiKey, req, store, result>>
  /\ Harness

\* axios.post of AIService.generateItinerary settles and the controller answers
\* (part_002 76-81, part_000 55-69)
GenerateText ==
  /\ pc = "ctl_text"
  /\ \E o \in JsonGenOutcomes :
       LET r == aiGenerateItinerary(o, req.startDate, req.endDate)
       IN  /\ loc' = [loc EXCEPT !.text = o]
           /\ result' = IF r.ok
                          THEN Responded(200,
                                 [destination  |-> req.destination,
                                  startDate    |-> req.startDate,
                                  endDate      |-> req.endDate,
                                  weather      |-> loc.weather,
                                  itinerary    |-> r.value,
                                  mapLocations |-> extractLocations(r.value,
                                                                    req.destination)])
                          ELSE errorHandler(r.error)
  /\ pc' = "done"
  /\ UNCHANGED <<apiKey, req, calls, store>>
  /\ Harness

\* regenerateDay up to axios.post (part_000 201-213, part_002 199-241)
BeginRegenerate ==
  /\ Free
  /\ \E dest \in {"", "Lisbon"}, n \in 0..MaxDayNumber, d \in RegenDates :
       /\ req' = [entry |-> "regenerateDay", destination |-> dest,
                  dayNumber |-> n, date |-> d]
       /\ IF dest = "" \/ n = 0 \/ d = ""
            THEN /\ result' = errorHandler(AppError("Missing required fields", 400, ""))
                 /\ pc' = "done"
                 /\ calls' = <<>>
            ELSE /\ result' = NoResult
                 /\ pc' = "regen_text"
                 /\ calls' = <<"textgen">>
  /\ loc' = NoLoc
  /\ UNCHANGED <<apiKey, store>>
  /\ Harness

\* axios.post of AIService.regenerateDay settles and the controller answers
\* (part_002 243-268, part_000 215-218)
RegenerateText ==
  /\ pc = "regen_text"
  /\ \E o \in DayGenOutcomes :
       /\ loc' = [loc EXCEPT !.text = o]
       /\ result' = Responded(200, aiRegenerateDay(o, req.dayNumber, req.date))
  /\ pc' = "done"
  /\ UNCHANGED <<apiKey, req, calls, store>>
  /\ Harness

\* The handler has answered: its locals are gone and the next request may come
Finish ==
  /\ pc = "done"
  /\ pc' = "idle"
  /\ req' = [entry |-> "none"]
  /\ loc' = NoLoc
  /\ calls' = <<>>
  /\ result' = NoResult
  /\ UNCHANGED <<apiKey, store>>
  /\ Harness

(***************************************************************************)
(* Operations on a stored itinerary (itinerary.service.ts 165-358) and the *)
(* CRUD controllers of the router (part_000 76-194).  A request is served  *)
(* from start to end; an itinerary is named by its position in its         *)
(* collection, and a deleted document leaves NoDoc at its position         *)
(***************************************************************************)
\* The authenticated users that call: the owner of the service's documents
\* and another user
Callers == Users \cup {"u2"}

ItineraryIds == 1..MaxStore

\* Activities a day may hold before no further one is added
MaxActivities == 2

NotFound == AppError("Itinerary not found", 404, "NOT_FOUND")
DayNotFound == AppError("Day not found in itinerary", 404, "DAY_NOT_FOUND")
ActivityNotFound == AppError("Activity not found", 404, "ACTIVITY_NOT_FOUND")

\* !itinerary
isNull(doc) == doc.userId = "none"

\* Itinerary.findOne({ _id: itineraryId, userId })
findOne(itineraryId, userId) ==
  IF itineraryId \in 1..Len(store) /\ store[itineraryId].userId = userId
    THEN store[itineraryId]
    ELSE NoDoc

\* Itinerary.findById(id) on the controllers' collection
findById(id) ==
  IF id \in 1..Len(saved) THEN saved[id] ELSE NoDoc

\* itinerary.dayItineraries.find((d) => d.day === dayNumber): the position of
\* the first such day, 0 when there is none
findDay(dayItineraries, dayNumber) ==
  LET at == {k \in 1..Len(dayItineraries) : dayItineraries[k].day = dayNumber}
  IN  IF at = {} THEN 0 ELSE SetMin(at)

\* activities.find / findIndex((a) => a.id === activityId): the position of the
\* first such activity, 0 when there is none
findActivity(activities, activityId) ==
  LET at == {k \in 1..Len(activities) : activities[k].id = activityId}
  IN  IF at = {} THEN 0 ELSE SetMin(at)

\* Object.assign(target, source), and the $set of findByIdAndUpdate
assign(target, source) ==
  [f \in DOMAIN target \cup DOMAIN source |->
     IF f \in DOMAIN source THEN source[f] ELSE target[f]]

\* activities.splice(index, 1)
splice(activities, index) ==
  SubSeq(activities, 1, index - 1) \o SubSeq(activities, index + 1, Len(activities))

\* The activities and the partial activities a caller sends
ActivityIds == {<<"activity", 0, 0>>, <<"activity", 0, 1>>}
NewActivities == {[id |-> i, name |-> <<"W", "a", "l", "k">>] : i \in ActivityIds}
ActivityPatches ==
  {[name |-> <<"S", "w", "i", "m">>]} \cup {[id |-> i] : i \in ActivityIds}

\* The UpdateItineraryDTO a caller sends: each of startDate, endDate and
\* dayItineraries is present or not
UpdateData ==
  {[hasStart |-> FALSE, startDate |-> 0, hasEnd |-> FALSE, endDate |-> 0,
    hasDays |-> h, dayItineraries |-> <<>>] : h \in BOOLEAN}
    \cup {[hasStart |-> TRUE, startDate |-> s, hasEnd |-> FALSE, endDate |-> 0,
           hasDays |-> FALSE, dayItineraries |-> <<>>] : s \in StartDates}
    \cup {[hasStart |-> FALSE, startDate |-> 0, hasEnd |-> TRUE, endDate |-> e,
           hasDays |-> FALSE, dayItineraries |-> <<>>] : e \in EndDates}

\* The bodies sent to saveItinerary and to updateItinerary
SaveBodies ==
  {[userId |-> u, destination |-> d, startDate |-> 0, endDate |-> 1] :
     u \in Callers, d \in {"Lisbon", ""}}
UpdateBodies == {[destination |-> "Porto"]}

\* What a request on a stored itinerary leaves of the handler's variables
Served ==
  /\ pc' = "done"
  /\ loc' = NoLoc
  /\ calls' = <<>>
  /\ UNCHANGED <<apiKey, cText, cOut, pDays, pFed, pState, pOut, parked>>

\* getItineraryService (lines 165-179)
getItineraryService ==
  /\ pc = "idle"
  /\ \E u \in Callers, id \in ItineraryIds :
       LET itinerary == findOne(id, u)
       IN  /\ req' = [entry |-> "getItineraryService", userId |-> u,
                      itineraryId |-> id]
           /\ result' = IF isNull(itinerary)
                          THEN Thrown(NotFound)
                          ELSE Returned([success |-> TRUE, itinerary |-> itinerary])
  /\ UNCHANGED <<store, saved>>
  /\ Served

\* updateItineraryService (lines 184-229)
updateItineraryService ==
  /\ pc = "idle"
  /\ \E u \in Callers, id \in ItineraryIds, data \in UpdateData :
       LET itinerary == findOne(id, u)
           start     == IF data.hasStart THEN data.startDate ELSE itinerary.startDate
           end       == IF data.hasEnd THEN data.endDate ELSE itinerary.endDate
           dated     == IF data.hasStart \/ data.hasEnd
                          THEN [itinerary EXCEPT !.startDate = start,
                                                 !.endDate = end,
                                                 !.duration = ceilDays(start, end)]
                          ELSE itinerary
           updated   == IF data.hasDays
                          THEN [dated EXCEPT !.dayItineraries = data.dayItineraries]
                          ELSE dated
       IN  /\ req' = [entry |-> "updateItineraryService", userId |-> u,
                      itineraryId |-> id, data |-> data]
           /\ IF isNull(itinerary)
                THEN /\ result' = Thrown(NotFound)
                     /\ store' = store
              ELSE IF (data.hasStart \/ data.hasEnd) /\ dateRangeRejected(start, end)
                THEN /\ result' = Thrown(InvalidDateRange)
                     /\ store' = store
              ELSE /\ store' = [store EXCEPT ![id] = updated]
                   /\ result' = Returned([success |-> TRUE, itinerary |-> updated])
  /\ UNCHANGED saved
  /\ Served

\* addActivityService (lines 234-262)
addActivityService ==
  /\ pc = "idle"
  /\ \E u \in Callers, id \in ItineraryIds, dayNumber \in 1..MaxDayNumber,
        activity \in NewActivities :
       LET itinerary == findOne(id, u)
           k         == findDay(itinerary.dayItineraries, dayNumber)
           updated   == [itinerary EXCEPT
                           !.dayItineraries[k].activities = Append(@, activity)]
       IN  /\ req' = [entry |-> "addActivityService", userId |-> u,
                      itineraryId |-> id, dayNumber |-> dayNumber,
                      activity |-> activity]
           /\ IF isNull(itinerary)
                THEN /\ result' = Thrown(NotFound)
                     /\ store' = store
              ELSE IF k = 0
                THEN /\ result' = Thrown(DayNotFound)
                     /\ store' = store
              ELSE /\ Len(itinerary.dayItineraries[k].activities) < MaxActivities
                   /\ store' = [store EXCEPT ![id] = updated]
                   /\ result' = Returned([success |-> TRUE, itinerary |-> updated])
  /\ UNCHANGED saved
  /\ Served

\* updateActivityService (lines 267-301)
updateActivityService ==
  /\ pc = "idle"
  /\ \E u \in Callers, id \in ItineraryIds, dayNumber \in 1..MaxDayNumber,
        activityId \in ActivityIds, updatedActivity \in ActivityPatches :
       LET itinerary == findOne(id, u)
           k         == findDay(itinerary.dayItineraries, dayNumber)
           j         == findActivity(itinerary.dayItineraries[k].activities, activityId)
           updated   == [itinerary EXCEPT
                           !.dayItineraries[k].activities[j] =
                              assign(@, updatedActivity)]
       IN  /\ req' = [entry |-> "updateActivityService", userId |-> u,
                      itineraryId |-> id, dayNumber |-> dayNumber,
                      activityId |-> activityId]
           /\ IF isNull(itinerary)
                THEN /\ result' = Thrown(NotFound)
                     /\ store' = store
              ELSE IF k = 0
                THEN /\ result' = Thrown(DayNotFound)
                     /\ store' = store
              ELSE IF j = 0
                THEN /\ result' = Thrown(ActivityNotFound)
                     /\ store' = store
              ELSE /\ store' = [store EXCEPT ![id] = updated]
                   /\ result' = Returned([success |-> TRUE, itinerary |-> updated])
  /\ UNCHANGED saved
  /\ Served

\* deleteActivityService (lines 306-339)
deleteActivityService ==
  /\ pc = "idle"
  /\ \E u \in Callers, id \in ItineraryIds, dayNumber \in 1..MaxDayNumber,
        activityId \in ActivityIds :
       LET itinerary == findOne(id, u)
           k         == findDay(itinerary.dayItineraries, dayNumber)
           j         == findActivity(itinerary.dayItineraries[k].activities, activityId)
           updated   == [itinerary EXCEPT
                           !.dayItineraries[k].activities = splice(@, j)]
       IN  /\ req' = [entry |-> "deleteActivityService", userId |-> u,
                      itineraryId |-> id, dayNumber |-> dayNumber,
                      activityId |-> activityId]
           /\ IF isNull(itinerary)
                THEN /\ result' = Thrown(NotFound)
                     /\ store' = store
              ELSE IF k = 0
                THEN /\ result' = Thrown(DayNotFound)
                     /\ store' = store
              ELSE IF j = 0
                THEN /\ result' = Thrown(ActivityNotFound)
                     /\ store' = store
              ELSE /\ store' = [store EXCEPT ![id] = updated]
                   /\ result' = Returned([success |-> TRUE, itinerary |-> updated])
  /\ UNCHANGED saved
  /\ Served

\* deleteItineraryService (lines 344-358)
deleteItineraryService ==
  /\ pc = "idle"
  /\ \E u \in Callers, id \in ItineraryIds :
       /\ req' = [entry |-> "deleteItineraryService", userId |-> u,
                  itineraryId |-> id]
       /\ IF isNull(findOne(id, u))
            THEN /\ result' = Thrown(NotFound)
                 /\ store' = store
            ELSE /\ store' = [store EXCEPT ![id] = NoDoc]
                 /\ result' = Returned([success |-> TRUE])
  /\ UNCHANGED saved
  /\ Served

\* saveItinerary, behind protect (part_000 lines 76-96)
saveItinerary ==
  /\ pc = "idle"
  /\ Len(saved) < MaxStore
  /\ \E u \in Callers, body \in SaveBodies :
       /\ req' = [entry |-> "saveItinerary", userId |-> u, body |-> body]
       /\ IF body.destination = ""
            THEN /\ result' = errorHandler(AppError("Missing required fields", 400, ""))
                 /\ saved' = saved
            ELSE /\ saved' = Append(saved, body)
                 /\ result' = Responded(201, [success |-> TRUE, data |-> body])
  /\ UNCHANGED store
  /\ Served

\* getItinerary, behind protect (part_000 lines 137-150)
getItinerary ==
  /\ pc = "idle"
  /\ \E u \in Callers, id \in ItineraryIds :
       LET itinerary == findById(id)
       IN  /\ req' = [entry |-> "getItinerary", userId |-> u, itineraryId |-> id]
           /\ result' = IF isNull(itinerary)
                          THEN errorHandler(AppError("Itinerary not found", 404, ""))
                          ELSE Responded(200, [success |-> TRUE, data |-> itinerary])
  /\ UNCHANGED <<store, saved>>
  /\ Served

\* updateItinerary, behind protect (part_000 lines 155-174)
updateItinerary ==
  /\ pc = "idle"
  /\ \E u \in Callers, id \in ItineraryIds, body \in UpdateBodies :
       LET itinerary == findById(id)
           updated   == assign(itinerary, body)
       IN  /\ req' = [entry |-> "updateItinerary", userId |-> u, itineraryId |-> id,
                      body |-> body]
           /\ IF isNull(itinerary)
                THEN /\ result' = errorHandler(AppError("Itinerary not found", 404, ""))
                     /\ saved' = saved
                ELSE /\ saved' = [saved EXCEPT ![id] = updated]
                     /\ result' = Responded(200, [success |-> TRUE, data |-> updated])
  /\ UNCHANGED store
  /\ Served

\* deleteItinerary, behind protect (part_000 lines 179-194)
deleteItinerary ==
  /\ pc = "idle"
  /\ \E u \in Callers, id \in ItineraryIds :
       /\ req' = [entry |-> "deleteItinerary", userId |-> u, itineraryId |-> id]
       /\ IF isNull(findById(id))
            THEN /\ result' = errorHandler(AppError("Itinerary not found", 404, ""))
                 /\ saved' = saved
            ELSE /\ saved' = [saved EXCEPT ![id] = NoDoc]
                 /\ result' = Responded(200, [success |-> TRUE])
  /\ UNCHANGED store
  /\ Served

(***************************************************************************)
(* Specifications                                                          *)
(***************************************************************************)
Init ==
  /\ apiKey \in BOOLEAN
  /\ pc = "idle"
  /\ req = [entry |-> "none"]
  /\ loc = NoLoc
  /\ calls = <<>>
  /\ store = <<>>
  /\ result = NoResult
  /\ cText = <<>>
  /\ cOut = NotClassified
  /\ pDays = 1
  /\ pFed = <<>>
  /\ pState = parseStart(1)
  /\ pOut = NotParsed
  /\ parked = NoCall
  /\ saved = <<>>

Next ==
  \/ BeginAI
  \/ AIGeocoded
  \/ AIForecast
  \/ AIText
  \/ AISaved
  \/ BeginCreate
  \/ CreateGeocoded
  \/ CreateSaved
  \/ BeginGenerate
  \/ GenerateCoords
  \/ GenerateForecast
  \/ GenerateText
  \/ BeginRegenerate
  \/ RegenerateText
  \/ Finish

Spec == Init /\ [][Next]_vars

\* The classifier applied to one line
Classify ==
  /\ cOut = NotClassified
  /\ cOut' = [category      |-> categorizeActivity(cText),
              estimatedCost |-> estimateCost(cText)]
  /\ UNCHANGED <<apiKey, pc, req, loc, calls, store, result, cText>>
  /\ UNCHANGED <<pDays, pFed, pState, pOut, parked, saved>>

InitClassify ==
  /\ apiKey = TRUE
  /\ pc = "idle"
  /\ req = [entry |-> "none"]
  /\ loc = NoLoc
  /\ calls = <<>>
  /\ store = <<>>
  /\ result = NoResult
  /\ cText \in ClassifierInputs
  /\ cOut = NotClassified
  /\ pDays = 1
  /\ pFed = <<>>
  /\ pState = parseStart(1)
  /\ pOut = NotParsed
  /\ parked = NoCall
  /\ saved = <<>>

NextClassify == Classify

SpecClassify == InitClassify /\ [][NextClassify]_vars

\* One iteration of the loop of parseAIResponse over the next line of the text
ParseLine ==
  /\ pOut = NotParsed
  /\ Len(pFed) < MaxLines
  /\ \E line \in ParserLines :
       /\ pFed' = Append(pFed, line)
       /\ pState' = parseLine(pState, line, pDays, "Lisbon")
  /\ UNCHANGED <<apiKey, pc, req, loc, calls, store, result, cText, cOut>>
  /\ UNCHANGED <<pDays, pOut, parked, saved>>

\* The text ends: parseAIResponse returns, or the TypeError of its loop
\* propagates (lines 234-238)
ParseReturn ==
  /\ pOut = NotParsed
  /\ pOut' = IF pState.threw
               THEN [kind |-> "error"]
               ELSE [kind |-> "ok", value |-> parseResult(pState)]
  /\ UNCHANGED <<apiKey, pc, req, loc, calls, store, result, cText, cOut>>
  /\ UNCHANGED <<pDays, pFed, pState, parked, saved>>

InitParse ==
  /\ apiKey = TRUE
  /\ pc = "idle"
  /\ req = [entry |-> "none"]
  /\ loc = NoLoc
  /\ calls = <<>>
  /\ store = <<>>
  /\ result = NoResult
  /\ cText = <<>>
  /\ cOut = NotClassified
  /\ pDays \in 1..MaxDays
  /\ pFed = <<>>
  /\ pState = parseStart(pDays)
  /\ pOut = NotParsed
  /\ parked = NoCall
  /\ saved = <<>>

NextParse == ParseLine \/ ParseReturn

SpecParse == InitParse /\ [][NextParse]_vars

\* One iteration of the loop of parseAIResponse over a line of ActivityLines
ReadLine ==
  /\ pOut = NotParsed
  /\ Len(pFed) < MaxRead
  /\ \E line \in ActivityLines :
       /\ pFed' = Append(pFed, line)
       /\ pState' = parseLine(pState, line, pDays, "Lisbon")
  /\ UNCHANGED <<apiKey, pc, req, loc, calls, store, result, cText, cOut>>
  /\ UNCHANGED <<pDays, pOut, parked, saved>>

NextLines == ReadLine \/ ParseReturn

SpecLines == InitParse /\ [][NextLines]_vars

\* Requests on stored itineraries: the service's documents are created by
\* createItineraryService, the controllers' by saveItinerary
NextStored ==
  \/ BeginCreate
  \/ CreateGeocoded
  \/ CreateSaved
  \/ getItineraryService
  \/ updateItineraryService
  \/ addActivityService
  \/ updateActivityService
  \/ deleteActivityService
  \/ deleteItineraryService
  \/ saveItinerary
  \/ getItinerary
  \/ updateItinerary
  \/ deleteItinerary
  \/ Finish

SpecStored == Init /\ [][NextStored]_vars

\* Itineraries created, generated and then updated
NextUpdate ==
  \/ BeginAI
  \/ AIGeocoded
  \/ AIForecast
  \/ AIText
  \/ AISaved
  \/ BeginCreate
  \/ CreateGeocoded
  \/ CreateSaved
  \/ updateItineraryService
  \/ Finish

SpecUpdate == Init /\ [][NextUpdate]_vars

\* The generateItinerary controller on trips around the maximum span
NextLong ==
  \/ BeginGenerateLong
  \/ GenerateCoords
  \/ GenerateForecast
  \/ GenerateText
  \/ Finish

SpecLong == Init /\ [][NextLong]_vars

(***************************************************************************)
(* Two requests in flight.  A handler runs from one await to the next; at  *)
(* an await the event loop may run the other request.  The locals of a     *)
(* request live in its own closure: they are set aside with it.            *)
(***************************************************************************)
AwaitPoints ==
  {"ai_geo", "ai_weather", "ai_text", "ai_save", "ctl_coords", "ctl_forecast",
   "ctl_text"}

Switch_sharedWeather ==
  /\ pc \in AwaitPoints \cup {"idle"}
  /\ parked.pc \in AwaitPoints \cup {"idle"}
  /\ pc # "idle" \/ parked.pc # "idle"
  /\ parked' = [pc |-> pc, req |-> req, loc |-> loc, calls |-> calls,
                result |-> result]
  /\ pc' = parked.pc
  /\ req' = parked.req
  /\ loc' = [parked.loc EXCEPT !.weather = loc.weather]
  /\ calls' = parked.calls
  /\ result' = parked.result
  /\ UNCHANGED <<apiKey, store, cText, cOut, pDays, pFed, pState, pOut, saved>>

\* The running request is suspended at an await and the event loop resumes
\* the other request, or leaves room for a new one
Switch ==
  /\ pc \in AwaitPoints \cup {"idle"}
  /\ parked.pc \in AwaitPoints \cup {"idle"}
  /\ pc # "idle" \/ parked.pc # "idle"
  /\ parked' = [pc |-> pc, req |-> req, loc |-> loc, calls |-> calls,
                result |-> result]
  /\ pc' = parked.pc
  /\ req' = parked.req
  /\ loc' = parked.loc
  /\ calls' = parked.calls
  /\ result' = parked.result
  /\ UNCHANGED <<apiKey, store, cText, cOut, pDays, pFed, pState, pOut, saved>>

\* The trips and the provider answers of the concurrent runs: a two-day trip,
\* a one-day trip and an empty range; a plan, a rate limit and a timeout
ConcurrentTrips == {<<0, 3>>, <<1, 3>>, <<1, 1>>}

InConcurrentRuns ==
  /\ req.entry # "none" => <<req.startDate, req.endDate>> \in ConcurrentTrips
  /\ loc.text.kind \in {"none", "ok", "http", "timeout"}
  /\ loc.text.kind = "http" => loc.text.status = 429
  /\ loc.text.kind = "ok" =>
       IF req.entry = "generateAIItineraryService"
         THEN loc.text.content = TextPlan
         ELSE \/ loc.text.content.shape = "prose"
              \/ loc.text.content = [shape |-> "array", elems |-> <<SparseDay>>]

InitConcurrent == Init

NextConcurrent ==
  \/ BeginAI /\ InConcurrentRuns'
  \/ AIGeocoded /\ InConcurrentRuns'
  \/ AIForecast /\ InConcurrentRuns'
  \/ AIText /\ InConcurrentRuns'
  \/ AISaved /\ InConcurrentRuns'
  \/ BeginGenerate /\ InConcurrentRuns'
  \/ GenerateCoords /\ InConcurrentRuns'
  \/ GenerateForecast /\ InConcurrentRuns'
  \/ GenerateText /\ InConcurrentRuns'
  \/ Finish /\ InConcurrentRuns'
  \/ Switch /\ InConcurrentRuns'

SpecConcurrent == InitConcurrent /\ [][NextConcurrent]_vars

(***************************************************************************)
(* Properties                                                              *)
(***************************************************************************)
ServiceAI == "generateAIItineraryService"
ServiceCreate == "createItineraryService"
Controller == "generateItinerary"
Regenerate == "regenerateDay"

GenerationEntries == {ServiceAI, Controller}
DatedEntries == GenerationEntries \cup {ServiceCreate}

\* The day plans of the itinerary a generation path has returned
ReturnedDayPlans ==
  IF req.entry = ServiceAI
    THEN result.body.itinerary.dayItineraries
    ELSE result.body.itinerary

\* A generation request has been answered
Answered == pc = "done" /\ req.entry \in GenerationEntries

\* The text-generation call failed, and not with a rate limit
ProviderErrorNotRateLimit ==
  /\ loc.text.kind \in {"http", "timeout", "network", "nochoices"}
  /\ loc.text.status # 429

RateLimited == loc.text.kind = "http" /\ loc.text.status = 429

\* The parser recovers no activity from the text the service generation got
NoActivityRecovered ==
  LET parsed == parseAIResponse(loc.text.content, loc.duration, req.destination)
  IN  \A d \in 1..Len(parsed.dayActivities) : parsed.dayActivities[d] = <<>>

\* The answer AIService.parseItinerary cannot read as an array of objects
NoJsonDays ==
  \/ loc.text.content.shape # "array"
  \/ \E k \in 1..Len(loc.text.content.elems) : loc.text.content.elems[k].isNull

\* The provider answered, with nothing a day plan can be built from
UnusableAnswer ==
  /\ loc.text.kind = "ok"
  /\ IF req.entry = ServiceAI
       THEN loc.text.content = <<>> \/ NoActivityRecovered
       ELSE NoJsonDays

\* The day plan holds the three placeholder activities of the fallback
IsPlaceholderPlan(plan) ==
  IF req.entry = ServiceAI
    THEN Len(plan.activities) = 3
    ELSE /\ plan.morning = "Explore local attractions and landmarks"
         /\ plan.afternoon = "Visit museums or cultural sites"
         /\ plan.evening = "Dinner at local restaurant"

\* C1: on every generation path, the itinerary returned for startDate < endDate
\* has exactly duration = ceil((endDate - startDate) / 1 day) day plans, and
\* their day indices are 1..duration without gap or duplicate.
C1_ExactlyDurationDayPlans ==
  (Answered /\ result.kind = "ok") =>
    /\ Len(ReturnedDayPlans) = ceilDays(req.startDate, req.endDate)
    /\ \A i \in 1..Len(ReturnedDayPlans) : ReturnedDayPlans[i].day = i

C5_InvalidDateRangeBeforeProviders ==
  [][(/\ pc = "idle"
      /\ pc' # "idle"
      /\ req'.entry \in DatedEntries
      /\ (req'.entry = Controller => req'.hasFields)
      /\ req'.startDate >= req'.endDate)
     => (/\ pc' = "done"
         /\ result'.kind = "error"
         /\ result'.statusCode = 400
         /\ result'.message = "End date must be after start date"
         /\ (req'.entry # Controller => result'.code = "INVALID_DATE_RANGE")
         /\ calls' = <<>>
         /\ store' = store)]_vars

\* C5 witness: a reversed range rejected by generateAIItineraryService
C5_Witness ==
  /\ pc = "done"
  /\ req.entry = ServiceAI
  /\ req.startDate > req.endDate
  /\ result.kind = "error"
  /\ result.code = "INVALID_DATE_RANGE"
  /\ calls = <<>>
  /\ store = <<>>

\* The geocoding call of the request failed
GeocodingDidFail == loc.geo \in {"fail", "malformed"}

IsPseudoForecast(weather) ==
  /\ Len(weather) > 0
  /\ \A i \in 1..Len(weather) :
       /\ weather[i].description = "Partly cloudy"
       /\ weather[i].icon = "04d"
       /\ weather[i].temp = [min |-> 20, max |-> 30]

\* C7: when the weather provider call fails, WeatherService.getWeatherForecast
\* raises no error to the controller: it returns the locally generated
\* pseudo-forecast and the request proceeds to the text-generation call.
C7_WeatherFailureDegrades ==
  (req.entry = Controller /\ loc.forecast \in {"fail", "malformed"}) =>
    /\ pc \in {"ctl_text", "done"}
    /\ IsPseudoForecast(loc.weather)
    /\ calls = <<"geocoding", "weather", "textgen">>
    /\ (pc = "ctl_text" => result = NoResult)
    /\ (pc = "done" /\ loc.text.kind = "ok") =>
         result.kind = "ok" /\ result.body.weather = loc.weather

\* C7 witness: the forecast call failed and the text-generation call is pending
C7_Witness ==
  /\ req.entry = Controller
  /\ loc.forecast = "fail"
  /\ pc = "ctl_text"
  /\ IsPseudoForecast(loc.weather)

\* The provider's answer to regenerateDay held no object to read
NoDayObject(outcome) == outcome.kind # "ok" \/ outcome.content.shape # "object"

\* C8: regenerateDay never fails: for every provider outcome it answers with one
\* day plan whose day and date are the requested ones, the fixed placeholder on
\* any failure, and it leaves every stored itinerary as it is.
C8_RegenerateDayNeverFails ==
  [][/\ (/\ pc = "idle"
         /\ req'.entry = Regenerate
         /\ req'.destination # "" /\ req'.dayNumber # 0 /\ req'.date # "")
        => pc' = "regen_text"
     /\ pc = "regen_text" =>
          /\ pc' = "done"
          /\ result'.kind = "ok"
          /\ result'.body.day = req.dayNumber
          /\ result'.body.date = req.date
          /\ NoDayObject(loc'.text) =>
               /\ result'.body.morning = "Explore local area"
               /\ result'.body.afternoon = "Visit popular attractions"
               /\ result'.body.evening = "Enjoy local cuisine"
               /\ result'.body.notes = "Adjust based on preferences"
          /\ store' = store]_vars

\* C8 witness: day 2 regenerated with the placeholder after a provider error
C8_Witness ==
  /\ pc = "done"
  /\ req.entry = Regenerate
  /\ req.dayNumber = 2
  /\ loc.text.kind = "http"
  /\ result.kind = "ok"
  /\ result.body.day = 2
  /\ result.body.morning = "Explore local area"

\* The provenance the answer carries: aiGenerated of the stored document, the
\* provenance field of a response that has one
Provenance ==
  IF req.entry \in {ServiceAI, ServiceCreate}
    THEN IF result.body.itinerary.aiGenerated THEN "synthesized" ELSE "user-authored"
  ELSE IF "provenance" \in DOMAIN result.body
    THEN result.body.provenance
  ELSE "untagged"

\* The itinerary returned was built on a degrade path
Degraded == UnusableAnswer

DayPlanFields == {"day", "date", "morning", "afternoon", "evening", "notes"}

NoKeyword(text) ==
  \A kw \in CategoryKeywords \cup CostKeywords : ~includes(toLowerCase(text), kw)

\* C10: for every input line the classifier returns one of the six categories
\* and a cost >= 0; a line without any keyword gives attraction and cost 0.
C10_ClassifierTotal ==
  cOut # NotClassified =>
    /\ cOut.category \in Categories
    /\ cOut.estimatedCost >= 0
    /\ (NoKeyword(cText) => cOut.category = "attraction" /\ cOut.estimatedCost = 0)

\* C10 witness: "Visit town" has been classified attraction, cost 0
C10_Witness ==
  /\ cText = <<"V", "i", "s", "i", "t", " ", "t", "o", "w", "n">>
  /\ NoKeyword(cText)
  /\ cOut = [category |-> "attraction", estimatedCost |-> 0]

\* C11: for every text and every numberOfDays >= 1 the loop of parseAIResponse
\* raises no error, and dayActivities is, at every line and in the value
\* returned, a list of exactly numberOfDays lists, whatever day markers were read.
C11_ParseTotal ==
  /\ ~pState.threw
  /\ DOMAIN pState.dayActivities = 1..pDays
  /\ pOut # NotParsed =>
       /\ pOut.kind = "ok"
       /\ DOMAIN pOut.value = {"summary", "dayActivities", "tips"}
       /\ DOMAIN pOut.value.dayActivities = 1..pDays
       /\ \A d \in 1..pDays :
            DOMAIN pOut.value.dayActivities[d] =
              1..Len(pOut.value.dayActivities[d])

\* C11 witness: a text with the markers "Day 0" and "Day 9" parsed for 2 days
C11_Witness ==
  /\ pDays = 2
  /\ pFed = <<LineDay0, LineVisit, LineDay9, LineDinner>>
  /\ pOut # NotParsed
  /\ pOut.kind = "ok"
  /\ Len(pOut.value.dayActivities) = 2
  /\ pOut.value.dayActivities[1] = <<>>
  /\ Len(pOut.value.dayActivities[2]) = 1

\* The text of the example: a day marker, a timed visit, a dinner and a tip
ExampleText == <<LineDay1, LineVisit, LineDinner, LineTips>>

\* C12: parsing "Day 1", "9:00 AM Visit the old town", "Dinner at a seaside
\* restaurant", "Tips: bring sunscreen" for one day yields one day with exactly
\* two activities, the first attraction with cost 0, the second dining with cost
\* 60 and time 09:00, and tips "Tips: bring sunscreen"; the tips line is not
\* itself an activity.
C12_ExampleParse ==
  (pDays = 1 /\ pFed = ExampleText /\ pOut # NotParsed) =>
    /\ pOut.kind = "ok"
    /\ Len(pOut.value.dayActivities) = 1
    /\ pOut.value.tips = LineTips
    /\ \A k \in 1..Len(pOut.value.dayActivities[1]) :
         pOut.value.dayActivities[1][k].description # LineTips
    /\ Len(pOut.value.dayActivities[1]) = 2
    /\ pOut.value.dayActivities[1][1].category = "attraction"
    /\ pOut.value.dayActivities[1][1].estimatedCost = 0
    /\ pOut.value.dayActivities[1][2].category = "dining"
    /\ pOut.value.dayActivities[1][2].estimatedCost = 60
    /\ pOut.value.dayActivities[1][2].time = <<"0", "9", ":", "0", "0">>

\* The controller has answered with the day plans of createFallbackItinerary
FallbackReturned ==
  /\ pc = "done"
  /\ req.entry = Controller
  /\ loc.text.kind = "ok"
  /\ NoJsonDays

\* C13: createFallbackItinerary(startDate, n) returns exactly n day plans, the
\* i-th with day = i and the calendar date of startDate plus i - 1 days, each
\* with the same three placeholder activities and the same note: the result is
\* fixed by startDate and n alone.
C13_FallbackComplete ==
  FallbackReturned =>
    LET plans == result.body.itinerary
        n     == aiServiceDays(req.startDate, req.endDate)
    IN  /\ Len(plans) = n
        /\ \A i \in 1..Len(plans) :
             /\ plans[i].day = i
             /\ plans[i].date = toISODate(req.startDate) + (i - 1)
             /\ plans[i].morning = "Explore local attractions and landmarks"
             /\ plans[i].afternoon = "Visit museums or cultural sites"
             /\ plans[i].evening = "Dinner at local restaurant"
             /\ plans[i].notes = "Adjust based on your preferences"

\* C13 witness: two fallback day plans for a one-day trip that starts at midday
C13_Witness ==
  /\ FallbackReturned
  /\ req.startDate = 1
  /\ req.endDate = 3
  /\ loc.text.content.shape = "prose"
  /\ result.kind = "ok"
  /\ Len(result.body.itinerary) = 2
  /\ result.body.itinerary[2].date = 1

\* The answer of generateAIItineraryService run alone on request r, for the
\* provider answers l.geo, l.forecast and l.text
AloneService(r, l) ==
  LET duration == ceilDays(r.startDate, r.endDate)
      weather  == getWeatherForecast(l.forecast, duration)
      ai       == generateTravelItinerary(l.text, duration, r.destination)
  IN  IF r.startDate >= r.endDate THEN Thrown(InvalidDateRange)
      ELSE IF l.geo = "fail" THEN Thrown(GeocodingFailed)
      ELSE IF ~apiKey THEN Thrown(missingKeyError)
      ELSE IF ~ai.ok THEN Thrown(ai.error)
      ELSE Returned([success   |-> TRUE,
                     itinerary |->
                       aiItinerary(r, duration, Coordinates,
                                   aiDayItineraries(r.startDate, duration, weather,
                                                    ai.value),
                                   ai.value)])

\* The answer of the generateItinerary controller run alone on request r
AloneController(r, l) ==
  LET weather == IF l.geo = "ok" /\ l.forecast = "ok"
                   THEN inRange(0, r.startDate, r.endDate)
                   ELSE getMockWeather(r.startDate, r.endDate)
      ai      == aiGenerateItinerary(l.text, r.startDate, r.endDate)
  IN  IF ~r.hasFields
        THEN errorHandler(AppError(
               "Destination, start date, and end date are required", 400, ""))
      ELSE IF r.startDate >= r.endDate
        THEN errorHandler(AppError("End date must be after start date", 400, ""))
      ELSE IF ~ai.ok THEN errorHandler(ai.error)
      ELSE Responded(200,
             [destination  |-> r.destination,
              startDate    |-> r.startDate,
              endDate      |-> r.endDate,
              weather      |-> weather,
              itinerary    |-> ai.value,
              mapLocations |-> extractLocations(ai.value, r.destination)])

\* C14: two generation requests interleaved at any of their awaits each get the
\* answer they would get run alone, fixed by their own request and the answers
\* the providers gave them: no request sees the locals, the parsed day lists or
\* the weather of the other, and a stored itinerary is the request's own.
C14_ConcurrentCallsIndependent ==
  Answered =>
    /\ result = IF req.entry = ServiceAI THEN AloneService(req, loc)
                ELSE AloneController(req, loc)
    /\ (req.entry = ServiceAI /\ result.kind = "ok") =>
         \E k \in 1..Len(store) : store[k] = result.body.itinerary

\* C14 witness: a two-day service generation has been answered while a one-day
\* controller generation waits for its text
C14_Witness ==
  /\ Answered
  /\ req.entry = ServiceAI
  /\ <<req.startDate, req.endDate>> = <<0, 3>>
  /\ result.kind = "ok"
  /\ Len(ReturnedDayPlans) = 2
  /\ parked.pc = "ctl_text"
  /\ <<parked.req.startDate, parked.req.endDate>> = <<1, 3>>
  /\ Len(parked.loc.weather) > 0

\* The keyword groups of the categories, in the order dining, accommodation,
\* activity, shopping, transport
CategoryOrder ==
  <<[category |-> "dining",
     keywords |-> {kw_restaurant, kw_dinner, kw_lunch, kw_breakfast, kw_cafe}],
    [category |-> "accommodation",
     keywords |-> {kw_hotel, kw_accommodation, kw_stay}],
    [category |-> "activity",
     keywords |-> {kw_tour, kw_hike, kw_adventure, kw_activity}],
    [category |-> "shopping",
     keywords |-> {kw_shop, kw_market, kw_store}],
    [category |-> "transport",
     keywords |-> {kw_transport, kw_taxi, kw_train, kw_bus}]>>

\* The groups of which the lower-cased line holds a keyword
GroupsHit(order, text) ==
  {g \in 1..Len(order) :
     \E kw \in order[g].keywords : includes(toLowerCase(text), kw)}

\* C15: the category is that of the earliest group, in the order dining,
\* accommodation, activity, shopping, transport, of which the line holds a
\* keyword, whatever other keywords it holds; attraction when it holds none.
C15_CategoryPriority ==
  cOut # NotClassified =>
    LET hit == GroupsHit(CategoryOrder, cText)
    IN  cOut.category = IF hit = {} THEN "attraction"
                        ELSE CategoryOrder[SetMin(hit)].category

\* C15 witness: "hotel Restaurant" holds keywords of two groups and is dining
C15_Witness ==
  /\ cText = <<"h", "o", "t", "e", "l", " ", "R", "e", "s", "t", "a", "u", "r", "a", "n", "t">>
  /\ GroupsHit(CategoryOrder, cText) = {1, 2}
  /\ cOut # NotClassified
  /\ cOut.category = "dining"

\* The keyword groups of the costs, in the order of estimateCost
CostOrder ==
  <<[cost |-> 150, keywords |-> {kw_luxury, kw_fine_dining}],
    [cost |-> 60,  keywords |-> {kw_restaurant, kw_dinner}],
    [cost |-> 30,  keywords |-> {kw_cafe, kw_lunch}],
    [cost |-> 25,  keywords |-> {kw_museum, kw_tour}],
    [cost |-> 0,   keywords |-> {kw_hike, kw_walk}],
    [cost |-> 50,  keywords |-> {kw_activity}]>>

\* C16: the cost is that of the earliest group, in the order {luxury, fine
\* dining} 150, {restaurant, dinner} 60, {cafe, lunch} 30, {museum, tour} 25,
\* {hike, walk} 0, {activity} 50, of which the line holds a keyword; 0 when it
\* holds none.
C16_CostPriority ==
  cOut # NotClassified =>
    LET hit == GroupsHit(CostOrder, cText)
    IN  cOut.estimatedCost = IF hit = {} THEN 0 ELSE CostOrder[SetMin(hit)].cost

\* C16 witness: "hike activity" costs 0, not 50
C16_Witness ==
  /\ cText = <<"h", "i", "k", "e", " ", "a", "c", "t", "i", "v", "i", "t", "y">>
  /\ GroupsHit(CostOrder, cText) = {5, 6}
  /\ cOut # NotClassified
  /\ cOut.estimatedCost = 0

\* The lines of ParserLines that are day markers, and the day each names
MarkerLines == {LineDay0, LineDay1, LineLowerDay2, LineDay9}

MarkedDay(line) ==
  CASE line = LineDay0 -> 0
    [] line = LineDay1 -> 1
    [] line = LineLowerDay2 -> 2
    [] line = LineDay9 -> 9

\* The line the loop has just read
LineRead == pFed'[Len(pFed')]

\* new is old, or old with one activity appended
AtMostAppended(old, new) ==
  /\ Len(new) \in {Len(old), Len(old) + 1}
  /\ SubSeq(new, 1, Len(old)) = old

\* C17: a day marker naming a day N in 1..numberOfDays makes N - 1 the current
\* day and adds no activity to any list; a line that is no marker leaves the
\* current day as it is and is appended, when accepted, to the list of the
\* current day and to no other.
C17_MarkerSetsCurrentDay ==
  [][pFed' # pFed =>
       /\ LineRead \in MarkerLines =>
            /\ pState'.dayActivities = pState.dayActivities
            /\ MarkedDay(LineRead) \in 1..pDays =>
                 pState'.currentDay = MarkedDay(LineRead) - 1
       /\ LineRead \notin MarkerLines =>
            /\ pState'.currentDay = pState.currentDay
            /\ \A d \in 1..pDays :
                 IF d = pState.currentDay + 1
                   THEN AtMostAppended(pState.dayActivities[d],
                                       pState'.dayActivities[d])
                   ELSE pState'.dayActivities[d] = pState.dayActivities[d]]_vars

\* C17 witness: the visit follows "Day 1" and the dinner follows "day 2"
C17_Witness ==
  /\ pDays = 2
  /\ pFed = <<LineDay1, LineVisit, LineLowerDay2, LineDinner>>
  /\ pState.currentDay = 1
  /\ Len(pState.dayActivities[1]) = 1
  /\ pState.dayActivities[1][1].description = LineVisit
  /\ Len(pState.dayActivities[2]) = 1
  /\ pState.dayActivities[2][1].description = LineDinner

\* The last line read is a day marker naming a day after the last of the trip
AfterLateMarker ==
  /\ pFed # <<>>
  /\ pFed[Len(pFed)] \in MarkerLines
  /\ MarkedDay(pFed[Len(pFed)]) > pDays

\* C18: a day marker naming a day greater than numberOfDays makes
\* numberOfDays - 1 the current day and raises no error; the activity lines that
\* follow it are appended to the last day's list, and dayActivities never has a
\* list outside 0..numberOfDays-1.
C18_LateMarkerClamped ==
  [][pFed' # pFed =>
       /\ (LineRead \in MarkerLines /\ MarkedDay(LineRead) > pDays) =>
            /\ pState'.currentDay = pDays - 1
            /\ ~pState'.threw
       /\ (AfterLateMarker /\ LineRead \in {LineVisit, LineDinner}) =>
            /\ Len(pState'.dayActivities[pDays]) = Len(pState.dayActivities[pDays]) + 1
            /\ pState'.dayActivities[pDays][Len(pState'.dayActivities[pDays])].description
                 = LineRead
            /\ \A d \in 1..(pDays - 1) :
                 pState'.dayActivities[d] = pState.dayActivities[d]
       /\ DOMAIN pState'.dayActivities = 1..pDays]_vars

\* C18 witness: the visit that follows "Day 9" is on the second of two days
C18_Witness ==
  /\ pDays = 2
  /\ pFed = <<LineDay9, LineVisit>>
  /\ pState.currentDay = 1
  /\ ~pState.threw
  /\ pState.dayActivities[1] = <<>>
  /\ Len(pState.dayActivities[2]) = 1
  /\ pState.dayActivities[2][1].description = LineVisit

\* C19 as stated: after any sequence of lines the current day index lies in
\* 0..numberOfDays-1, also after a marker naming day 0.
C19_CurrentDayInRange ==
  pState.currentDay \in 0..(pDays - 1)

\* C19 amended: the current day index lies in -1..numberOfDays-1: a day marker
\* is clamped at the upper end only, and "Day 0" makes the index -1.  While the
\* index is -1 no line is extracted as an activity and no error is raised; the
\* index is -1 only from a "Day 0" marker until the next day marker.
C19_CurrentDayBounds ==
  [][pFed' # pFed =>
       /\ pState'.currentDay \in (-1)..(pDays - 1)
       /\ LineRead = LineDay0 => pState'.currentDay = -1
       /\ pState'.currentDay = -1 =>
            LineRead = LineDay0 \/ (pState.currentDay = -1 /\ LineRead \notin MarkerLines)
       /\ pState.currentDay = -1 =>
            /\ pState'.dayActivities = pState.dayActivities
            /\ ~pState'.threw]_vars

\* C19 witness: the visit that follows "Day 0" is on no day
C19_Witness ==
  /\ pFed = <<LineDay0, LineVisit>>
  /\ pState.currentDay = -1
  /\ ~pState.threw
  /\ \A d \in 1..pDays : pState.dayActivities[d] = <<>>

\* The lines of the text that precede its first day marker
LinesBeforeFirstMarker(text) ==
  LET at == {i \in 1..Len(text) : text[i] \in MarkerLines}
  IN  IF at = {} THEN text ELSE SubSeq(text, 1, SetMin(at) - 1)

\* C20: the summary returned is the space-joined sequence of exactly the
\* non-empty lines that precede the first day marker: no marker line, "Day N" or
\* "day N", contributes to it, every other line before the first marker does,
\* and no line after the first marker does.
C20_SummaryBeforeFirstMarker ==
  (pOut # NotParsed /\ pOut.kind = "ok") =>
    pOut.value.summary = JoinWords(LinesBeforeFirstMarker(pFed))

\* In ActivityLines: the day markers, the lines that hold "tip" and the lines
\* that hold "overall"
DayMarkerLines == {LineDay1, LineDay2Tips}
TipLines == {LineTips, LineDay2Tips}
OverallLines == {LineOverall}

\* C21 as stated: once a line holding "tip" has been read, tip collection stays
\* on, and that line and every later non-empty line without "overall", day
\* markers included, is appended to the tips.
C21_TipsKeepEveryLaterLine ==
  [][pFed' # pFed =>
       LET on == \E i \in 1..Len(pFed') : pFed'[i] \in TipLines
       IN  /\ on => pState'.collectingTips
           /\ pState'.tips =
                IF on /\ LineRead # LineEmpty /\ LineRead \notin OverallLines
                  THEN pState.tips \o LineRead \o <<" ">>
                  ELSE pState.tips]_vars

\* C21 amended: once a line that is not a day marker and holds "tip" has been
\* read, tip collection stays on, and that line and every later non-empty line
\* that holds no "overall" and is not a day marker is appended to the tips; a
\* day marker is never appended and, when it holds "tip", does not turn the
\* collection on.
C21_TipsKeepLaterLines ==
  [][pFed' # pFed =>
       LET on == \E i \in 1..Len(pFed') : pFed'[i] \in TipLines \ DayMarkerLines
       IN  /\ pState'.collectingTips = on
           /\ pState'.tips =
                IF /\ on
                   /\ LineRead # LineEmpty
                   /\ LineRead \notin OverallLines
                   /\ LineRead \notin DayMarkerLines
                  THEN pState.tips \o LineRead \o <<" ">>
                  ELSE pState.tips]_vars

\* C21 witness: the marker that follows the tips line is not among the tips,
\* the bulleted line that follows the marker is
C21_Witness ==
  /\ pFed = <<LineTips, LineDay1, LineHyphen>>
  /\ pState.collectingTips
  /\ pState.tips = LineTips \o <<" ">> \o LineHyphen \o <<" ">>

\* The lines of ActivityLines whose lowercase form holds "day", "activities",
\* "dining", "recommended" or "overall"
HeaderLines ==
  {LineDay1, LineDay2Tips, LineOverall, LineDining, LineActivities,
   LineRecommended}

\* C22: a line whose lowercase form holds "day", "activities", "dining",
\* "recommended" or "overall" adds no activity to any day list, whatever the
\* parser's state and also when the line carries a time token; no activity of
\* any list is made from such a line.
C22_HeaderLinesSkipped ==
  [][pFed' # pFed =>
       /\ LineRead \in HeaderLines => pState'.dayActivities = pState.dayActivities
       /\ \A d \in 1..pDays :
            \A k \in 1..Len(pState'.dayActivities[d]) :
              pState'.dayActivities[d][k].description \notin HeaderLines]_vars

\* C22 witness: inside day 1 the header "8:00 Overall", which carries a time
\* token, has been read and only the visit that follows it is an activity
C22_Witness ==
  /\ pDays = 1
  /\ pFed = <<LineDay1, LineOverall, LineVisit>>
  /\ Len(pState.dayActivities[1]) = 1
  /\ pState.dayActivities[1][1].description = LineVisit

\* The acceptance rule as documented, for a trimmed non-empty line: a time
\* token leads the line, or the line is longer than 10 characters and does not
\* begin with "-", a bullet or "*"
DocumentedAccepted(line) ==
  \/ IsDigit(line[1])
  \/ Len(line) > 10 /\ line[1] \notin {"-", Bullet, "*"}

\* C23: a non-empty line that is no header, read inside a valid day, adds
\* exactly one activity to the list of the current day when a time token leads
\* it or when it is longer than 10 characters and begins with none of "-",
\* bullet and "*"; in every other case it adds none.
C23_AcceptanceRule ==
  [][(/\ pFed' # pFed
      /\ LineRead # LineEmpty
      /\ LineRead \notin HeaderLines
      /\ pState.currentDay \in 0..(pDays - 1)) =>
       LET d == pState.currentDay + 1
       IN  Len(pState'.dayActivities[d]) =
             Len(pState.dayActivities[d])
               + (IF DocumentedAccepted(LineRead) THEN 1 ELSE 0)]_vars

\* t is written HH:MM
IsHHMM(t) ==
  /\ Len(t) = 5
  /\ IsDigit(t[1]) /\ IsDigit(t[2])
  /\ t[3] = ":"
  /\ IsDigit(t[4]) /\ IsDigit(t[5])

\* C24: the time of every activity is written HH:MM, with two digits for the
\* hour and two for the minutes; the lines "9:00 AM ..." and "9 AM ..." both
\* give 09:00, and so does a line that no time token leads.
C24_TimeIsHHMM ==
  \A d \in 1..pDays :
    \A k \in 1..Len(pState.dayActivities[d]) :
      LET a == pState.dayActivities[d][k]
      IN  /\ IsHHMM(a.time)
          /\ a.description \in {LineVisit, LineNine, LineTips} =>
               a.time = <<"0", "9", ":", "0", "0">>

\* C25: the k-th activity, counted from 0, of the list of day d, counted from
\* 0, has the id activity-d-k, so that the ids of one list are pairwise
\* distinct, also when several day markers name the same day or are clamped to
\* the same day.
C25_ActivityIds ==
  \A d \in 1..pDays :
    LET list == pState.dayActivities[d]
    IN  /\ \A k \in 1..Len(list) : list[k].id = <<"activity", d - 1, k - 1>>
        /\ \A j, k \in 1..Len(list) : j # k => list[j].id # list[k].id

\* C25 witness: "Day 9" is clamped to the day "Day 1" names, and the dinner
\* that follows it is numbered after the visit
C25_Witness ==
  /\ pDays = 1
  /\ pFed = <<LineDay1, LineVisit, LineDay9, LineDinner>>
  /\ Len(pState.dayActivities[1]) = 2
  /\ pState.dayActivities[1][1].id = <<"activity", 0, 0>>
  /\ pState.dayActivities[1][2].id = <<"activity", 0, 1>>
  /\ pState.dayActivities[1][2].description = LineDinner

\* The names of the activities, each after the first preceded by " (bullet) "
NamesWithSeparator(activities) ==
  LET upTo[k \in 0..Len(activities)] ==
        IF k = 0 THEN <<>>
        ELSE IF k = 1 THEN activities[1].name
        ELSE upTo[k - 1] \o <<" ", Bullet, " ">> \o activities[k].name
  IN  upTo[Len(activities)]

\* C26: in the itinerary generateAIItineraryService returns, the activities of
\* day plan i are exactly the list the parser returned for day i - 1, and its
\* summary is the names of these activities joined by the separator, the empty
\* text when there is none.
C26_DayPlanFromParsedDay ==
  (pc = "done" /\ req.entry = ServiceAI /\ result.kind = "ok") =>
    LET plans == result.body.itinerary.dayItineraries
    IN  /\ [i \in 1..Len(plans) |-> plans[i].activities]
             = parseAIResponse(loc.text.content, loc.duration,
                               req.destination).dayActivities
        /\ \A i \in 1..Len(plans) :
             /\ plans[i].summary = NamesWithSeparator(plans[i].activities)
             /\ plans[i].activities = <<>> => plans[i].summary = <<>>

\* C26 witness: a one-day trip whose only day plan holds the four activities
\* recovered from the text, and their names in its summary
C26_Witness ==
  /\ pc = "done" /\ req.entry = ServiceAI /\ result.kind = "ok"
  /\ loc.text.content = TextPlan
  /\ Len(result.body.itinerary.dayItineraries) = 1
  /\ Len(result.body.itinerary.dayItineraries[1].activities) = 4
  /\ Len(result.body.itinerary.dayItineraries[1].summary) > 0

\* The stored itineraries of the service
StoredItineraries == {i \in 1..Len(store) : ~isNull(store[i])}

\* C27: whatever addActivityService, updateActivityService and
\* deleteActivityService calls have been served, the ids of the activities of
\* one day of a stored itinerary are pairwise distinct, so that an update or a
\* delete by id addresses the single activity that carries the id.
C27_ActivityIdsDistinct ==
  \A i \in StoredItineraries :
    \A d \in 1..Len(store[i].dayItineraries) :
      LET activities == store[i].dayItineraries[d].activities
      IN  \A j, k \in 1..Len(activities) :
            j # k => activities[j].id # activities[k].id

\* C28: after any sequence of create, generate and updateItineraryService
\* calls, also those that change startDate or endDate, every stored itinerary
\* has as many day plans as its duration, with the day indices 1..duration; an
\* update rejected with INVALID_DATE_RANGE leaves the stored itinerary as it
\* was.
C28_DayPlansMatchDuration ==
  [][/\ \A i \in 1..Len(store') :
          ~isNull(store'[i]) =>
            /\ Len(store'[i].dayItineraries) = store'[i].duration
            /\ \A d \in 1..Len(store'[i].dayItineraries) :
                 store'[i].dayItineraries[d].day = d
     /\ (result'.kind = "error" /\ result'.code = "INVALID_DATE_RANGE")
          => store' = store]_vars

\* A request on a stored itinerary has just been served for a user who does
\* not own it
ServedToOther ==
  /\ pc = "idle" /\ pc' = "done"
  /\ \/ /\ req'.entry \in {"getItineraryService", "updateItineraryService",
                           "addActivityService", "updateActivityService",
                           "deleteActivityService", "deleteItineraryService"}
        /\ req'.itineraryId \in StoredItineraries
        /\ store[req'.itineraryId].userId # req'.userId
     \/ /\ req'.entry \in {"getItinerary", "updateItinerary", "deleteItinerary"}
        /\ req'.itineraryId \in 1..Len(saved)
        /\ ~isNull(saved[req'.itineraryId])
        /\ saved[req'.itineraryId].userId # req'.userId

\* C30: on every entry point, a get, update, delete or activity request on a
\* stored itinerary made by an authenticated user who does not own it is
\* answered not-found (404) and leaves the itinerary as it was.
C30_OnlyOwner ==
  [][ServedToOther =>
       /\ result'.kind = "error"
       /\ result'.statusCode = 404
       /\ store' = store
       /\ saved' = saved]_vars

\* C29: the generate endpoint enforces the maximum span before any provider is
\* called: a request whose span rounds up to more than 14 days is answered 400
\* without a call to the weather or the text provider, and for every request it
\* accepts the number of days asked of the generator, and the number of day
\* plans the fallback builds, is at most 14.
C29_SpanEnforced ==
  (req.entry = Controller /\ req.hasFields
     /\ ~dateRangeRejected(req.startDate, req.endDate)) =>
    IF ceilDays(req.startDate, req.endDate) > MaxTripDays
      THEN /\ pc = "done"
           /\ result.kind = "error" /\ result.statusCode = 400
           /\ calls = <<>>
      ELSE (pc = "done" /\ loc.text # NoOutcome) =>
             /\ aiServiceDays(req.startDate, req.endDate) <= MaxTripDays
             /\ result.kind = "ok" => Len(result.body.itinerary) <= MaxTripDays
====
